---- MODULE Spec2Model ----
(***************************************************************************)
(* A model of the PR-Reviewer worker: the token-bucket RateLimiter and the *)
(* Orchestrator (dequeue loop, process_task, retry and dead-letter policy) *)
(* of backend/workers/orchestrator.py, with the Redis queue of             *)
(* backend/services/queue.py and the status store of                      *)
(* backend/services/database.py.                                           *)
(*                                                                         *)
(* The specifications of the module:                                       *)
(*   SpecLimiter   one RateLimiter instance used by concurrent callers,    *)
(*                 with the clock made explicit;                           *)
(*   SpecWaiters   one RateLimiter instance and a finite set of calls of   *)
(*                 wait() and acquire(), scheduled fairly;                 *)
(*   Spec          the Orchestrator with one task: the worker loop and the *)
(*                 executions of process_task over the task's attempts;    *)
(*   SpecLimiters  the three RateLimiter instances of the Orchestrator;    *)
(*   SpecRefill    one RateLimiter instance, its clock and the successful  *)
(*                 acquisitions of an interval;                            *)
(*   SpecTasks     the Orchestrator with several tasks in flight together; *)
(*   SpecSamePr    SpecTasks with all the tasks for one pull request;      *)
(*   SpecLoop      SpecTasks with the main loop scheduled fairly;          *)
(*   SpecProgress  Spec with every suspended coroutine resumed in time;    *)
(*   SpecShutdown  SpecTasks with stop();                                  *)
(*   SpecReview    the synthesis and assembly of one review from the       *)
(*                 results of the stages;                                  *)
(*   SpecParser    the DiffParser on bounded diffs and file lists;         *)
(*   SpecChunk     DiffParser.chunk_large_file on bounded texts;           *)
(*   SpecScout     the Scout's result and the text handed to the analyses; *)
(*   SpecQueue     Queue.enqueue and Queue.dequeue on the Redis list;      *)
(*   SpecWebhook   handle_webhook on bounded requests.                     *)
(***************************************************************************)
EXTENDS Integers, Sequences, FiniteSets, TLC

(***************************************************************************)
(* Bounds of the model.                                                    *)
(***************************************************************************)
\* Callers sharing the RateLimiter instance of SpecLimiter.
NumCallers == 2
\* RateLimiter(rate, per) is constructed with rate in 1..MaxRate ...
MaxRate == 2
\* ... and per in 1..MaxPer (clock ticks).
MaxPer == 3

\* Tasks (pull requests, one task each) the webhook has enqueued.
NumTasks == 2
\* Capacity of each of the Orchestrator's three limiters.
LimiterRate == 1
\* Calls of a collaborator (database, queue, GitHub) that fail in one run of
\* Spec, which is configured with the default ceiling.
MaxFaults == 5
\* The ceiling (settings.max_retries) SpecTasks is configured with, and the
\* calls of a collaborator that fail in one of its runs.
TasksMaxRetries == 1
TasksMaxFaults == 2

\* settings.retry_delay, in ticks of the clock of the back-off sleep.
RetryDelay == 1

\* tokens_used of an AgentResult is in 0..MaxTokens.
MaxTokens == 1

\* A diff handed to parse_diff has at most MaxLines lines ...
MaxLines == 3
\* ... and the counts in its hunk headers are in 0..MaxHunkCount.
MaxHunkCount == 1
\* A list handed to filter_noise by a caller has at most MaxFiles entries.
MaxFiles == 2

\* The clock of SpecLimiters and SpecRefill runs from 0 to MaxNow.
MaxNow == 4

\* A text handed to chunk_large_file has at most MaxContent characters ...
MaxContent == 5
\* ... and max_size is in 0..MaxChunkSize.
MaxChunkSize == 3

\* The Redis list of SpecQueue and SpecWebhook holds at most MaxStore
\* payloads.
MaxStore == 2

\* settings.max_retries: int = 3
DefaultMaxRetries == 3

Callers == 1..NumCallers
Tasks == 1..NumTasks

Min(a, b) == IF a <= b THEN a ELSE b

VARIABLES
    \* ---- RateLimiter instance (SpecLimiter) ----
    rate,          \* self.rate
    per,           \* self.per
    tokens,        \* self.tokens
    elapsed,       \* time.time() - self.last_refill, in ticks, capped at per
    lock,          \* self.lock: 0 when free, else the caller holding it
    cpc,           \* caller -> position in acquire() / wait()
    cmode,         \* caller -> "acquire" (one call) or "wait" (the loop of wait())
    cpost,         \* caller -> self.tokens as this call saw it after its refill
    cres,          \* caller -> the value acquire() returned
    cafter,        \* caller -> self.tokens when this call released the lock
    cslept,        \* caller -> ticks slept so far in wait()'s asyncio.sleep
    cstale,        \* history: caller -> the clock ticked since this call read it
    epochAvail,    \* history: tokens obtainable since the last tick, refill included
    epochGrants,   \* history: calls that passed the test of line 42 since the last tick
    \* ---- Orchestrator (Spec) ----
    running,       \* self.running
    loopPc,        \* position of start(): "dequeue" (in queue.dequeue) or "exited"
    queue,         \* Redis list pr_review_queue, leftmost element first
    dlq,           \* Redis list pr_review_dlq, leftmost element first
    review,        \* pr_reviews row per task key: status, error_message, ...
    resultRows,    \* task -> rows of review_results saved for it
    comments,      \* task -> review comments posted on its pull request
    limiter,       \* github / openai / anthropic limiter -> self.tokens
    ex,            \* task -> the execution of process_task that holds it
    llmFaults,     \* environment: whether the LLM providers can fail in this run
    faults,        \* environment: collaborator calls that can still fail
    max_retries,   \* settings.max_retries, read from the environment at start
    pr_id,         \* task -> pr_metadata.pr_id, the key of its pr_reviews row
    hist,          \* history: task -> executions started, faults other than get_pr_diff
    order,         \* history: pushes onto the queue so far, and for each queue
                   \* element the number of the push that put it there
    \* ---- synthesis and assembly of one review (SpecReview) ----
    agent_results,       \* scout_result .. stylist_result of process_task
    synthesizer_result,  \* synthesizer_result
    review_result,       \* the ReviewResult of lines 224-239
    review_results,      \* rows of the table review_results
    \* ---- DiffParser (SpecParser) ----
    diff_text,           \* parse_diff's argument, as its lines
    files,               \* the list parse_diff returned, or filter_noise's argument
    filtered_files,      \* what filter_noise returned for files
    refiltered_files,    \* what filter_noise returned for filtered_files
    summary,             \* the lines get_file_summary returned for files
    parser_pc,           \* the next call: "parse", "filter", "refilter", "done"
    \* ---- DiffParser.chunk_large_file (SpecChunk) ----
    file_content,        \* chunk_large_file's argument, as its characters
    max_size,            \* chunk_large_file's argument
    chunks,              \* the list chunk_large_file returned
    chunk_pc,            \* "idle", "call" (called) or "done" (returned)
    \* ---- RateLimiter instances (SpecLimiters, SpecRefill) ----
    instances,           \* name -> [rate, per, tokens, last_refill]
    now,                 \* time.time(), in ticks
    last_call,           \* history: the instance acquire() was last called on
                         \* since the last tick
    window,              \* history: an interval that began with a full
                         \* bucket, and the successful calls in it
    \* ---- the Scout and the text for the analyses (SpecScout) ----
    filtered_diff,       \* filtered_diff of line 120, scout.analyze's argument
    scout_result,        \* scout_result of line 124
    scout_failed,        \* history: the Scout's LLM call raised
    filtered_for_review, \* filtered_for_review of line 131
    stage_input,         \* analysis -> the text its analyze() was given
    scout_pc,            \* the next line of process_task, "idle" or "done"
    \* ---- Queue and handle_webhook (SpecQueue, SpecWebhook) ----
    client,              \* queue.client: "none" (None) or "connected"
    store,               \* Redis list pr_review_queue, as its payloads
    qcall,               \* history: the last call of Queue, the list before
                         \* it, what it returned
    request,             \* the request handle_webhook was called with
    response             \* the HTTP status of its response, 0 before it

limiterVars == <<rate, per, tokens, elapsed, lock, cpc, cmode, cpost, cres,
                 cafter, cslept, cstale, epochAvail, epochGrants>>

orchVars == <<running, loopPc, queue, dlq, review, resultRows, comments,
              limiter, ex, llmFaults, faults, max_retries, pr_id, hist,
              order>>

reviewVars == <<agent_results, synthesizer_result, review_result,
                review_results>>

parserVars == <<diff_text, files, filtered_files, refiltered_files,
                summary, parser_pc>>

chunkVars == <<file_content, max_size, chunks, chunk_pc>>

instanceVars == <<instances, now, last_call, window>>

scoutVars == <<filtered_diff, scout_result, scout_failed, filtered_for_review,
               stage_input, scout_pc>>

\* The state of the parts modelled on their own, which the steps of
\* SpecLimiter and of the Orchestrator leave alone.
frontVars == <<client, store, qcall, request, response>>

pureVars == <<reviewVars, parserVars, chunkVars, instanceVars, scoutVars,
              frontVars>>

\* What the steps of each of these parts leave alone.
besideReview == <<limiterVars, orchVars, parserVars, chunkVars, instanceVars,
                  scoutVars,
    frontVars>>
besideParser == <<limiterVars, orchVars, reviewVars, chunkVars, instanceVars,
                  scoutVars,
    frontVars>>
besideChunk == <<limiterVars, orchVars, reviewVars, parserVars, instanceVars,
                 scoutVars,
    frontVars>>
besideInstances == <<limiterVars, orchVars, reviewVars, parserVars, chunkVars,
                     scoutVars,
    frontVars>>
besideScout == <<limiterVars, orchVars, reviewVars, parserVars, chunkVars,
                 instanceVars,
    frontVars>>

besideFront == <<limiterVars, orchVars, reviewVars, parserVars, chunkVars,
                 instanceVars, scoutVars>>

vars == <<limiterVars, orchVars, pureVars>>

(***************************************************************************)
(* RateLimiter                                                             *)
(***************************************************************************)

\* A refill that never adds a token.
TokensToAddNothing(e, r, p) == 0

\* tokens_to_add = int(elapsed * self.rate / self.per)
TokensToAdd(e, r, p) == (e * r) \div p

\* The refill of acquire(): the token count after lines 36-40.
RefilledNoClamp(tok, e, r, p) ==
    IF TokensToAdd(e, r, p) > 0 THEN tok + TokensToAdd(e, r, p) ELSE tok

Refilled(tok, e, r, p) ==
    IF TokensToAdd(e, r, p) > 0 THEN Min(r, tok + TokensToAdd(e, r, p)) ELSE tok

\* if self.tokens > 0
HasTokenOffByOne(tok) == tok >= 0

HasToken(tok) == tok > 0

\* async with self.lock: the lock can be taken when nobody holds it.
LockFreeUnguarded == TRUE

LockFree == lock = 0

\* __init__: tokens = rate, last_refill = time.time(), a fresh lock.
InitLimiter ==
    /\ rate \in 1..MaxRate
    /\ per \in 1..MaxPer
    /\ tokens = rate
    /\ elapsed = 0
    /\ lock = 0
    /\ cpc = [c \in Callers |-> "idle"]
    /\ cmode = [c \in Callers |-> "acquire"]
    /\ cpost = [c \in Callers |-> 0]
    /\ cres = [c \in Callers |-> FALSE]
    /\ cafter = [c \in Callers |-> 0]
    /\ cslept = [c \in Callers |-> 0]
    /\ cstale = [c \in Callers |-> FALSE]
    /\ epochAvail = rate
    /\ epochGrants = 0

\* A caller calls acquire() directly, or wait(), which loops on acquire().
Call(c) ==
    /\ cpc[c] = "idle"
    /\ \E m \in {"acquire", "wait"} : cmode' = [cmode EXCEPT ![c] = m]
    /\ cpc' = [cpc EXCEPT ![c] = "lock"]
    /\ UNCHANGED <<rate, per, tokens, elapsed, lock, cpost, cres, cafter,
                   cslept, cstale, epochAvail, epochGrants>>
    /\ UNCHANGED <<orchVars, pureVars>>

\* async with self.lock (entry).
AcquireLock(c) ==
    /\ cpc[c] = "lock"
    /\ LockFree
    /\ lock' = c
    /\ cpc' = [cpc EXCEPT ![c] = "refill"]
    /\ UNCHANGED <<rate, per, tokens, elapsed, cmode, cpost, cres, cafter,
                   cslept, cstale, epochAvail, epochGrants>>
    /\ UNCHANGED <<orchVars, pureVars>>

\* now = time.time(); elapsed; tokens_to_add; the refill; last_refill = now.
RefillStep(c) ==
    /\ cpc[c] = "refill"
    /\ tokens' = Refilled(tokens, elapsed, rate, per)
    /\ elapsed' = IF TokensToAdd(elapsed, rate, per) > 0 THEN 0 ELSE elapsed
    /\ cpost' = [cpost EXCEPT ![c] = tokens']
    /\ cpc' = [cpc EXCEPT ![c] = "check"]
    /\ cstale' = [cstale EXCEPT ![c] = FALSE]
    /\ UNCHANGED <<rate, per, lock, cmode, cres, cafter, cslept,
                   epochAvail, epochGrants>>
    /\ UNCHANGED <<orchVars, pureVars>>

\* if self.tokens > 0: ... else: return False (the lock is released).
CheckStep(c) ==
    /\ cpc[c] = "check"
    /\ IF HasToken(tokens)
       THEN /\ cpc' = [cpc EXCEPT ![c] = "take"]
            /\ epochGrants' = IF cstale[c] THEN epochGrants ELSE epochGrants + 1
            /\ UNCHANGED <<lock, cres, cafter>>
       ELSE /\ cpc' = [cpc EXCEPT ![c] = "ret"]
            /\ cres' = [cres EXCEPT ![c] = FALSE]
            /\ cafter' = [cafter EXCEPT ![c] = tokens]
            /\ lock' = IF lock = c THEN 0 ELSE lock
            /\ UNCHANGED epochGrants
    /\ UNCHANGED <<rate, per, tokens, elapsed, cmode, cpost, cslept, cstale,
                   epochAvail>>
    /\ UNCHANGED <<orchVars, pureVars>>

\* self.tokens -= 1; return True (the lock is released).
TakeStep(c) ==
    /\ cpc[c] = "take"
    /\ tokens' = tokens - 1
    /\ cres' = [cres EXCEPT ![c] = TRUE]
    /\ cafter' = [cafter EXCEPT ![c] = tokens']
    /\ lock' = IF lock = c THEN 0 ELSE lock
    /\ cpc' = [cpc EXCEPT ![c] = "ret"]
    /\ UNCHANGED <<rate, per, elapsed, cmode, cpost, cslept, cstale,
                   epochAvail, epochGrants>>
    /\ UNCHANGED <<orchVars, pureVars>>

\* The caller has acquire()'s result: wait() sleeps on False and loops,
\* and returns on True; a direct call is over.  The call's locals are gone.
Resume(c) ==
    /\ cpc[c] = "ret"
    /\ IF cmode[c] = "wait" /\ ~cres[c]
       THEN /\ cpc' = [cpc EXCEPT ![c] = "sleep"]
            /\ cslept' = [cslept EXCEPT ![c] = 0]
       ELSE /\ cpc' = [cpc EXCEPT ![c] = "idle"]
            /\ UNCHANGED cslept
    /\ cmode' = [cmode EXCEPT ![c] = IF cpc'[c] = "idle" THEN "acquire" ELSE @]
    /\ cpost' = [cpost EXCEPT ![c] = 0]
    /\ cres' = [cres EXCEPT ![c] = FALSE]
    /\ cafter' = [cafter EXCEPT ![c] = 0]
    /\ cstale' = [cstale EXCEPT ![c] = FALSE]
    /\ UNCHANGED <<rate, per, tokens, elapsed, lock, epochAvail, epochGrants>>
    /\ UNCHANGED <<orchVars, pureVars>>

\* await asyncio.sleep(self.per / self.rate) is over: at least per / rate
\* has passed; wait() calls acquire() again.
WakeUp(c) ==
    /\ cpc[c] = "sleep"
    /\ cslept[c] * rate >= per
    /\ cpc' = [cpc EXCEPT ![c] = "lock"]
    /\ cslept' = [cslept EXCEPT ![c] = 0]
    /\ UNCHANGED <<rate, per, tokens, elapsed, lock, cmode, cpost, cres,
                   cafter, cstale, epochAvail, epochGrants>>
    /\ UNCHANGED <<orchVars, pureVars>>

\* Tokens already promised at a tick to the calls that read the clock before
\* it: those past the test of line 42 that have not decremented yet, and
\* those about to pass it.
Promised ==
    Cardinality({c \in Callers :
                    cpc[c] = "take" \/ (cpc[c] = "check" /\ HasToken(tokens))})

\* The clock advances by one tick.  Past per ticks the refill is the same
\* (the clamp to rate), so elapsed is counted up to per, and a sleep is
\* counted up to its length.  The history variables start a new epoch: what
\* can be had until the next tick is the stored count, less the tokens
\* already promised, plus the refill that is due.
Tick ==
    /\ elapsed' = Min(per, elapsed + 1)
    /\ cslept' = [c \in Callers |->
                    IF cpc[c] = "sleep" THEN Min(per, cslept[c] + 1) ELSE cslept[c]]
    /\ epochAvail' = Refilled(tokens - Promised, elapsed', rate, per)
    /\ epochGrants' = 0
    /\ cstale' = [c \in Callers |-> cstale[c] \/ cpc[c] \in {"check", "take"}]
    /\ \/ elapsed' # elapsed
       \/ cstale' # cstale
       \/ cslept' # cslept
       \/ epochGrants # 0
       \/ epochAvail' # epochAvail
    /\ UNCHANGED <<rate, per, tokens, lock, cpc, cmode, cpost, cres, cafter>>
    /\ UNCHANGED <<orchVars, pureVars>>

\* The steps of caller c inside a call it has made.
CallerStep(c) ==
    \/ AcquireLock(c)
    \/ RefillStep(c)
    \/ CheckStep(c)
    \/ TakeStep(c)
    \/ Resume(c)
    \/ WakeUp(c)

\* The limiter some time after __init__, when every caller has just called
\* wait() or acquire(): any token count, any time since the last refill.
InitWaiters ==
    /\ rate \in 1..MaxRate
    /\ per \in 1..MaxPer
    /\ tokens \in 0..rate
    /\ elapsed \in 0..per
    /\ lock = 0
    /\ cpc = [c \in Callers |-> "lock"]
    /\ cmode \in [Callers -> {"acquire", "wait"}]
    /\ cpost = [c \in Callers |-> 0]
    /\ cres = [c \in Callers |-> FALSE]
    /\ cafter = [c \in Callers |-> 0]
    /\ cslept = [c \in Callers |-> 0]
    /\ cstale = [c \in Callers |-> FALSE]
    /\ epochAvail = Refilled(tokens, elapsed, rate, per)
    /\ epochGrants = 0

\* The calls in progress run on; no further call is made.
NextWaiters ==
    \/ \E c \in Callers : CallerStep(c)
    \/ Tick

NextLimiter ==
    \/ \E c \in Callers : Call(c)
    \/ \E c \in Callers : AcquireLock(c)
    \/ \E c \in Callers : RefillStep(c)
    \/ \E c \in Callers : CheckStep(c)
    \/ \E c \in Callers : TakeStep(c)
    \/ \E c \in Callers : Resume(c)
    \/ \E c \in Callers : WakeUp(c)
    \/ Tick


(***************************************************************************)
(* Queue (backend/services/queue.py) and status store (database.py)        *)
(***************************************************************************)

\* A PRTask serialised without its retry_count (the field's default is 0).
TaskFresh(t, n) == [id |-> t, retry_count |-> 0]

\* PRTask: the pull request it is for and retry_count.
Task(t, n) == [id |-> t, retry_count |-> n]

\* A push at the end the queue is popped from.
RPush(q, x) == q \o <<x>>

\* client.lpush(name, x): x becomes the leftmost element.
LPush(q, x) == <<x>> \o q

\* A pop that returns the rightmost element and leaves it on the list.
RPoppedKeeps(q) == q

\* client.brpop(name): the rightmost element is returned ...
RPeek(q) == q[Len(q)]

\* ... and removed.
RPopped(q) == SubSeq(q, 1, Len(q) - 1)

\* A pr_reviews row; status "none" stands for no row.
NoRow == [status |-> "none", error_message |-> "null",
          comment_posted |-> FALSE, comment_id |-> 0]

\* create_pr_review: INSERT ... 'pending' ON CONFLICT DO UPDATE SET status =
\* 'pending'; the other columns of an existing row stay.
CreatedRow(row) ==
    IF row.status = "none"
    THEN [NoRow EXCEPT !.status = "pending"]
    ELSE [row EXCEPT !.status = "pending"]

\* An update that writes status and error_message only.
UpdatedRowStatusOnly(row, status, error_message, comment_posted, comment_id) ==
    IF row.status = "none" THEN row
    ELSE [row EXCEPT !.status = status, !.error_message = error_message]

\* update_pr_review_status: an UPDATE (no row, no effect).  'completed' sets
\* error_message, comment_posted and comment_id; 'failed' sets error_message;
\* any other status sets error_message (to its default, None).
UpdatedRow(row, status, error_message, comment_posted, comment_id) ==
    IF row.status = "none" THEN row
    ELSE IF status = "completed"
    THEN [status |-> status, error_message |-> error_message,
          comment_posted |-> comment_posted, comment_id |-> comment_id]
    ELSE [row EXCEPT !.status = status, !.error_message = error_message]

\* stop() closes the database pool: from then on every db call raises.
DbClosed == ~running

(***************************************************************************)
(* Orchestrator                                                            *)
(***************************************************************************)

Limiters == {"github", "openai", "anthropic"}

\* The webhook enqueues a task for every "opened" and "synchronize" event
\* (webhook.py lines 54-76).  DistinctPrs: every task is for a pull request
\* of its own.  SamePr: all tasks are for pull request 1.
DistinctPrs == [t \in Tasks |-> t]
SamePr == [t \in Tasks |-> 1]
Agents == {"guardian", "architect", "stylist"}

\* The limiter each of the three gathered wait() calls of lines 149-153 is
\* made on, in the order of the three analyses of lines 155-160.
GatherLimiter(a) == IF a = "guardian" THEN "anthropic" ELSE "openai"

\* An execution of process_task: its position, task.retry_count, the five AgentResults
\* ("none" before the call, "running" during it, then "ok" or "err" for a
\* result with error set), the gathered wait() calls that have returned,
\* str(e) in the handler, whether a call of a collaborator has failed in
\* it, and how it ended; the limiter of the last wait() of lines 111, 123,
\* 194 and 258 that returned; whether the update of line 285 has returned;
\* the argument of the sleep of line 293 and the ticks slept so far.
NoExecution == [pc |-> "none", retry_count |-> 0, scout |-> "none",
                guardian |-> "none", architect |-> "none", stylist |-> "none",
                synthesizer |-> "none", got |-> {}, err |-> "none",
                fault |-> FALSE, ending |-> "none", waited |-> "none",
                marked |-> FALSE, delay |-> 0, slept |-> 0]

\* What an LLM call can do in this run: return, or fail.
StageOutcomes == IF llmFaults THEN {"ok", "err"} ELSE {"ok"}

\* The executions that have started and not ended.
InFlight == {t \in Tasks : ex[t].pc \notin {"none", "ended"}}

InQueue(t) == \E i \in 1..Len(queue) : queue[i].id = t

InDlq(t) == \E i \in 1..Len(dlq) : dlq[i].task.id = t

\* The number of dead-letter entries that hold task t.
DlqEntries(t) == Cardinality({i \in 1..Len(dlq) : dlq[i].task.id = t})

\* Orchestrator.__init__ and start() up to the loop: three full limiters,
\* running = True, db and queue connected; the webhook has enqueued the
\* tasks 1..n, each with retry_count 0, task 1 first.
InitOrchestrator(n) ==
    /\ running = TRUE
    /\ loopPc = "dequeue"
    /\ queue = [i \in 1..n |-> Task(n + 1 - i, 0)]
    /\ dlq = <<>>
    /\ review = [t \in Tasks |-> NoRow]
    /\ resultRows = [t \in Tasks |-> 0]
    /\ comments = [t \in Tasks |-> 0]
    /\ limiter = [l \in Limiters |-> LimiterRate]
    /\ ex = [t \in Tasks |-> NoExecution]
    /\ hist = [t \in Tasks |-> [attempts |-> 0, otherFault |-> FALSE]]
    /\ order = [next |-> n + 1, tickets |-> [i \in 1..n |-> n + 1 - i]]

\* ---- start(): the main loop, lines 79-86 ----

\* A loop that awaits process_task itself: it dequeues only when no
\* execution is in flight.
DispatchableWhenIdle == \A t \in Tasks : ex[t].pc \in {"none", "ended"}

\* asyncio.create_task(self.process_task(task)), line 83: the loop goes on at
\* once, whatever the executions in flight are doing.
Dispatchable == TRUE

\* A loop that does not test self.running: while True.
WhileTrue(r) == "dequeue"

\* while self.running (line 79): the next iteration, or start() returns.
WhileRunning(r) == IF r THEN "dequeue" ELSE "exited"

\* queue.dequeue returned a task: BRPOP took it off the list; the loop spawns
\* its process_task and tests self.running again.
LoopDequeue ==
    /\ loopPc = "dequeue"
    /\ Len(queue) > 0
    /\ Dispatchable
    /\ LET task == RPeek(queue) IN
        /\ queue' = RPopped(queue)
        /\ ex' = [ex EXCEPT ![task.id] =
                    [NoExecution EXCEPT !.pc = "create_pr_review",
                                        !.retry_count = task.retry_count]]
        /\ hist' = [hist EXCEPT ![task.id].attempts = @ + 1]
        /\ order' = [order EXCEPT !.tickets = RPopped(@)]
    /\ loopPc' = WhileRunning(running)
    /\ UNCHANGED <<running, dlq, review, resultRows, comments, limiter,
                   llmFaults, faults>>
    /\ UNCHANGED <<max_retries, pr_id, limiterVars, pureVars>>

\* queue.dequeue returned None (BRPOP timed out on an empty list, or raised
\* and the error was logged): nothing was taken; the loop tests self.running.
LoopDequeueNone ==
    /\ loopPc = "dequeue"
    /\ loopPc' = WhileRunning(running)
    /\ UNCHANGED <<running, queue, dlq, review, resultRows, comments, limiter,
                   ex, llmFaults, faults, hist>>
    /\ UNCHANGED <<max_retries, pr_id, order, limiterVars, pureVars>>

\* stop(): running = False; the database pool and the Redis client are closed.
Stop ==
    /\ running
    /\ running' = FALSE
    /\ UNCHANGED <<loopPc, queue, dlq, review, resultRows, comments, limiter,
                   ex, llmFaults, faults, hist>>
    /\ UNCHANGED <<max_retries, pr_id, order, limiterVars, pureVars>>

\* ---- process_task ----

At(t, p) == ex[t].pc = p

Goto(t, p) == ex' = [ex EXCEPT ![t].pc = p]

\* A call of a collaborator fails: the queue or GitHub at any time, the
\* database at any time and always once its pool is closed.
Fault(closed) ==
    /\ closed \/ faults > 0
    /\ faults' = IF closed THEN faults ELSE faults - 1

\* A fault other than a failed get_pr_diff has hit the task.
NoteFault(t) == hist' = [hist EXCEPT ![t].otherFault = TRUE]

\* The execution is over: "completed" (line 281), "retried" (line 294 pushed
\* the task), "dead_lettered" (line 289 pushed the entry); or "returned" (line
\* 107), "raised" (line 285 raised), "enqueue_failed" (line 294 returned
\* False), "dlq_failed" (line 289 logged an error), each after a failed call.
Ended(t, how) ==
    ex' = [ex EXCEPT ![t].pc = "ended", ![t].ending = how,
                     ![t].fault = @ \/ how \notin {"completed", "retried",
                                                   "dead_lettered"}]

\* str(e) of the exception a failed call raises: one text per collaborator.
ErrorOf(step) ==
    IF step \in {"get_pr_diff", "get_pr_details", "post_pr_comment"}
    THEN "github error" ELSE "database error"

\* except Exception as e (line 283): the handler is entered with str(e).
Raise(t, step) ==
    ex' = [ex EXCEPT ![t].pc = "mark_failed", ![t].err = ErrorOf(step),
                     ![t].fault = TRUE]

\* Lines 102-103: db.create_pr_review; on an exception process_task returns.
CreatePrReview(t) ==
    /\ At(t, "create_pr_review")
    /\ \/ /\ ~DbClosed
          /\ review' = [review EXCEPT ![pr_id[t]] = CreatedRow(@)]
          /\ Goto(t, "mark_processing")
          /\ UNCHANGED <<faults, hist>>
       \/ /\ Ended(t, "returned")
          /\ NoteFault(t)
          /\ Fault(DbClosed)
          /\ UNCHANGED review
    /\ UNCHANGED <<running, loopPc, queue, dlq, resultRows, comments, limiter,
                   llmFaults>>
    /\ UNCHANGED <<max_retries, pr_id, order, limiterVars, pureVars>>

\* Lines 104-107: db.update_pr_review_status(..., "processing").
MarkProcessing(t) ==
    /\ At(t, "mark_processing")
    /\ \/ /\ ~DbClosed
          /\ review' = [review EXCEPT ![pr_id[t]] =
                          UpdatedRow(@, "processing", "null", FALSE, 0)]
          /\ Goto(t, "github_wait_diff")
          /\ UNCHANGED <<faults, hist>>
       \/ /\ Ended(t, "returned")
          /\ NoteFault(t)
          /\ Fault(DbClosed)
          /\ UNCHANGED review
    /\ UNCHANGED <<running, loopPc, queue, dlq, resultRows, comments, limiter,
                   llmFaults>>
    /\ UNCHANGED <<max_retries, pr_id, order, limiterVars, pureVars>>

\* limiter.wait() returns: an acquire() of it found a token after its refill
\* (whatever time has passed since the last refill) and took it.  While
\* acquire() returns False the caller sleeps and stays where it is.
Acquired(l) ==
    \E e \in 0..LimiterRate :
        LET post == Refilled(limiter[l], e, LimiterRate, LimiterRate) IN
            /\ HasToken(post)
            /\ limiter' = [limiter EXCEPT ![l] = post - 1]

\* The limiter whose wait() precedes a step outside the gather.
WaitLimiter(p) ==
    IF p \in {"github_wait_diff", "github_wait_post"} THEN "github" ELSE "openai"

\* A process_task that posts its comment right after the analyses.
AfterWaitSkipsSynthesis(p) ==
    CASE p = "github_wait_diff" -> "get_pr_diff"
      [] p = "openai_wait_scout" -> "scout"
      [] p = "openai_wait_synth" -> "post_pr_comment"
      [] p = "github_wait_post" -> "post_pr_comment"

\* The step that follows each wait(): lines 112, 124, 195, 259.
AfterWait(p) ==
    CASE p = "github_wait_diff" -> "get_pr_diff"
      [] p = "openai_wait_scout" -> "scout"
      [] p = "openai_wait_synth" -> "get_pr_details"
      [] p = "github_wait_post" -> "post_pr_comment"

\* Lines 111, 123, 194, 258: await self.<provider>_limiter.wait().
LimiterWait(t) ==
    /\ ex[t].pc \in {"github_wait_diff", "openai_wait_scout",
                     "openai_wait_synth", "github_wait_post"}
    /\ Acquired(WaitLimiter(ex[t].pc))
    /\ ex' = [ex EXCEPT ![t].pc = AfterWait(ex[t].pc),
                        ![t].waited = WaitLimiter(ex[t].pc)]
    /\ UNCHANGED <<running, loopPc, queue, dlq, review, resultRows, comments,
                   llmFaults, faults, hist>>
    /\ UNCHANGED <<max_retries, pr_id, order, limiterVars, pureVars>>

\* Lines 112-120: github_client.get_pr_diff, then diff_parser.process_diff.
GetPrDiff(t) ==
    /\ At(t, "get_pr_diff")
    /\ \/ /\ Goto(t, "openai_wait_scout")
          /\ UNCHANGED faults
       \/ /\ Raise(t, "get_pr_diff")
          /\ Fault(FALSE)
    /\ UNCHANGED <<running, loopPc, queue, dlq, review, resultRows, comments,
                   limiter, llmFaults, hist>>
    /\ UNCHANGED <<max_retries, pr_id, order, limiterVars, pureVars>>

\* A scout whose failed call would reach the handler of line 283.
ScoutReturnOrRaise(t, r) ==
    IF r = "err"
    THEN ex' = [ex EXCEPT ![t].pc = "mark_failed", ![t].err = "scout error"]
    ELSE ex' = [ex EXCEPT ![t].scout = r, ![t].pc = "gather_wait"]

\* Lines 124-128: scout.analyze returns an AgentResult, with error set when
\* its call failed (scout.py lines 74-84).
ScoutReturn(t, r) ==
    ex' = [ex EXCEPT ![t].scout = r, ![t].pc = "gather_wait"]

Scout(t) ==
    /\ At(t, "scout")
    /\ \E r \in StageOutcomes : ScoutReturn(t, r)
    /\ UNCHANGED <<running, loopPc, queue, dlq, review, resultRows, comments,
                   limiter, llmFaults, faults, hist>>
    /\ UNCHANGED <<max_retries, pr_id, order, limiterVars, pureVars>>

\* Line 155: asyncio.gather schedules the three analyze coroutines built at
\* lines 134-146; they start running.
Gathered(e) ==
    [e EXCEPT !.pc = "gather_agents", !.guardian = "running",
              !.architect = "running", !.stylist = "running"]

\* Lines 149-153: asyncio.gather of three wait() calls; one of them returns.
\* The gather returns when all three have, and the second gather starts.
GatherWait(t) ==
    /\ At(t, "gather_wait")
    /\ \E a \in Agents \ ex[t].got :
        /\ Acquired(GatherLimiter(a))
        /\ LET e == [ex[t] EXCEPT !.got = @ \cup {a}] IN
            ex' = [ex EXCEPT ![t] = IF e.got = Agents THEN Gathered(e) ELSE e]
    /\ UNCHANGED <<running, loopPc, queue, dlq, review, resultRows, comments,
                   llmFaults, faults, hist>>
    /\ UNCHANGED <<max_retries, pr_id, order, limiterVars, pureVars>>

\* Lines 155-191: asyncio.gather(guardian, architect, stylist,
\* return_exceptions=True): one analysis yields its AgentResult, with error
\* set when its call failed (or when it raised, lines 163-191).  The gather
\* returns when all three have.
GatherAgents(t) ==
    /\ At(t, "gather_agents")
    /\ \E a \in {b \in Agents : ex[t][b] = "running"}, r \in StageOutcomes :
        LET e == [ex[t] EXCEPT ![a] = r] IN
            ex' = [ex EXCEPT ![t] =
                     [e EXCEPT !.pc = IF \A b \in Agents : e[b] # "running"
                                      THEN "openai_wait_synth" ELSE @]]
    /\ UNCHANGED <<running, loopPc, queue, dlq, review, resultRows, comments,
                   limiter, llmFaults, faults, hist>>
    /\ UNCHANGED <<max_retries, pr_id, order, limiterVars, pureVars>>

\* Lines 195-200: github_client.get_pr_details.
GetPrDetails(t) ==
    /\ At(t, "get_pr_details")
    /\ \/ /\ Goto(t, "synthesizer")
          /\ UNCHANGED <<faults, hist>>
       \/ /\ Raise(t, "get_pr_details")
          /\ NoteFault(t)
          /\ Fault(FALSE)
    /\ UNCHANGED <<running, loopPc, queue, dlq, review, resultRows, comments,
                   limiter, llmFaults>>
    /\ UNCHANGED <<max_retries, pr_id, order, limiterVars, pureVars>>

\* A synthesizer called while the gather of line 155 is still pending.
SynthesizerMayStartEarly(t) == ex[t].pc \in {"gather_agents", "synthesizer"}

\* Line 203: the call of synthesizer.analyze comes after lines 155 and 195.
SynthesizerMayStart(t) == At(t, "synthesizer")

\* Lines 202-239: synthesizer.analyze returns an AgentResult (the fallback
\* comment with error set when its call failed); total_tokens and the
\* ReviewResult are built.
Synthesizer(t) ==
    /\ SynthesizerMayStart(t)
    /\ \E r \in StageOutcomes :
        ex' = [ex EXCEPT ![t].synthesizer = r, ![t].pc = "save_review_result"]
    /\ UNCHANGED <<running, loopPc, queue, dlq, review, resultRows, comments,
                   limiter, llmFaults, faults, hist>>
    /\ UNCHANGED <<max_retries, pr_id, order, limiterVars, pureVars>>

\* Line 242: db.save_review_result inserts a row (review_results has no
\* unique key, so its ON CONFLICT DO NOTHING never applies).
SaveReviewResult(t) ==
    /\ At(t, "save_review_result")
    /\ \/ /\ ~DbClosed
          /\ resultRows' = [resultRows EXCEPT ![t] = @ + 1]
          /\ Goto(t, "save_api_usage")
          /\ UNCHANGED <<faults, hist>>
       \/ /\ Raise(t, "save_review_result")
          /\ NoteFault(t)
          /\ Fault(DbClosed)
          /\ UNCHANGED resultRows
    /\ UNCHANGED <<running, loopPc, queue, dlq, review, comments, limiter,
                   llmFaults>>
    /\ UNCHANGED <<max_retries, pr_id, order, limiterVars, pureVars>>

\* Lines 245-255: db.save_api_usage for each of the five results; any of the
\* calls can raise.  The api_usage rows are written and never read by the
\* worker; they are left out of the state.
SaveApiUsage(t) ==
    /\ At(t, "save_api_usage")
    /\ \/ /\ ~DbClosed
          /\ Goto(t, "github_wait_post")
          /\ UNCHANGED <<faults, hist>>
       \/ /\ Raise(t, "save_api_usage")
          /\ NoteFault(t)
          /\ Fault(DbClosed)
    /\ UNCHANGED <<running, loopPc, queue, dlq, review, resultRows, comments,
                   limiter, llmFaults>>
    /\ UNCHANGED <<max_retries, pr_id, order, limiterVars, pureVars>>

\* Lines 259-265: github_client.post_pr_comment; the comment's id comes back.
PostPrComment(t) ==
    /\ At(t, "post_pr_comment")
    /\ \/ /\ comments' = [comments EXCEPT ![t] = @ + 1]
          /\ Goto(t, "mark_completed")
          /\ UNCHANGED <<faults, hist>>
       \/ /\ Raise(t, "post_pr_comment")
          /\ NoteFault(t)
          /\ Fault(FALSE)
          /\ UNCHANGED comments
    /\ UNCHANGED <<running, loopPc, queue, dlq, review, resultRows, limiter,
                   llmFaults>>
    /\ UNCHANGED <<max_retries, pr_id, order, limiterVars, pureVars>>

\* Lines 268-281: db.update_pr_review_status(..., "completed",
\* comment_posted=True, comment_id=comment_data.get("id")).
MarkCompleted(t) ==
    /\ At(t, "mark_completed")
    /\ \/ /\ ~DbClosed
          /\ review' = [review EXCEPT ![pr_id[t]] =
                          UpdatedRow(@, "completed", "null", TRUE, comments[t])]
          /\ Ended(t, "completed")
          /\ UNCHANGED <<faults, hist>>
       \/ /\ Raise(t, "mark_completed")
          /\ NoteFault(t)
          /\ Fault(DbClosed)
          /\ UNCHANGED review
    /\ UNCHANGED <<running, loopPc, queue, dlq, resultRows, comments, limiter,
                   llmFaults>>
    /\ UNCHANGED <<max_retries, pr_id, order, limiterVars, pureVars>>

\* A back-off that doubles: retry_delay * 2 ** (retry_count - 1).
BackoffExponential(k) == RetryDelay * 2 ^ (k - 1)

\* settings.retry_delay * task.retry_count, the argument of line 293.
Backoff(k) == RetryDelay * k

\* A handler that dead-letters every failed task.
RetriesExceededAtOnce(n) == TRUE

\* A test that lets one more retry through.
RetriesExceededOffByOne(n) == n > max_retries

\* if task.retry_count >= settings.max_retries (line 288)
RetriesExceeded(n) == n >= max_retries

\* Lines 283-292: the handler.  db.update_pr_review_status(..., "failed",
\* error_message=str(e)) is outside any try: when it raises, the exception
\* leaves process_task.  Then the test of line 288; on the retry branch
\* task.retry_count += 1 and the sleep of line 293 is entered.
MarkFailed(t) ==
    /\ At(t, "mark_failed")
    /\ \/ /\ ~DbClosed
          /\ review' = [review EXCEPT ![pr_id[t]] =
                          UpdatedRow(@, "failed", ex[t].err, FALSE, 0)]
          /\ IF RetriesExceeded(ex[t].retry_count)
             THEN ex' = [ex EXCEPT ![t].pc = "enqueue_dlq",
                                   ![t].marked = TRUE]
             ELSE ex' = [ex EXCEPT ![t].pc = "retry_sleep",
                                   ![t].marked = TRUE,
                                   ![t].retry_count = @ + 1,
                                   ![t].delay = Backoff(ex[t].retry_count + 1),
                                   ![t].slept = 0]
          /\ UNCHANGED <<faults, hist>>
       \/ /\ Ended(t, "raised")
          /\ NoteFault(t)
          /\ Fault(DbClosed)
          /\ UNCHANGED review
    /\ UNCHANGED <<running, loopPc, queue, dlq, resultRows, comments, limiter,
                   llmFaults>>
    /\ UNCHANGED <<max_retries, pr_id, order, limiterVars, pureVars>>

\* error_data of enqueue_dlq (queue.py lines 72-76): the task, the error text
\* and datetime.utcnow().isoformat().
DlqEntry(task, error) ==
    [task |-> task, error |-> error, failed_at |-> "utcnow"]

\* Line 289: queue.enqueue_dlq(task, str(e)) pushes {task, error, failed_at};
\* an error of the push is logged and swallowed (queue.py lines 79-80).
EnqueueDlq(t) ==
    /\ At(t, "enqueue_dlq")
    /\ \/ /\ dlq' = LPush(dlq, DlqEntry(Task(t, ex[t].retry_count),
                                         ex[t].err))
          /\ Ended(t, "dead_lettered")
          /\ UNCHANGED <<faults, hist>>
       \/ /\ Ended(t, "dlq_failed")
          /\ NoteFault(t)
          /\ Fault(FALSE)
          /\ UNCHANGED dlq
    /\ UNCHANGED <<running, loopPc, queue, review, resultRows, comments,
                   limiter, llmFaults>>
    /\ UNCHANGED <<max_retries, pr_id, order, limiterVars, pureVars>>

\* asyncio.sleep(delay) returns when delay has passed.
SleepOver(e) == e.slept >= e.delay

\* Line 293: a tick of the clock passes in await asyncio.sleep(...).
RetrySleepTick(t) ==
    /\ At(t, "retry_sleep")
    /\ ex[t].slept < ex[t].delay
    /\ ex' = [ex EXCEPT ![t].slept = @ + 1]
    /\ UNCHANGED <<running, loopPc, queue, dlq, review, resultRows, comments,
                   limiter, llmFaults, faults, hist>>
    /\ UNCHANGED <<max_retries, pr_id, order, limiterVars, pureVars>>

\* Line 293: await asyncio.sleep(settings.retry_delay * task.retry_count)
\* returns.
RetrySleep(t) ==
    /\ At(t, "retry_sleep")
    /\ SleepOver(ex[t])
    /\ Goto(t, "enqueue")
    /\ UNCHANGED <<running, loopPc, queue, dlq, review, resultRows, comments,
                   limiter, llmFaults, faults, hist>>
    /\ UNCHANGED <<max_retries, pr_id, order, limiterVars, pureVars>>

\* Line 294: queue.enqueue(task); it returns False when the push failed
\* (queue.py lines 47-49) and the result is not looked at.
Enqueue(t) ==
    /\ At(t, "enqueue")
    /\ \/ /\ queue' = LPush(queue, Task(t, ex[t].retry_count))
          /\ order' = [next |-> order.next + 1,
                       tickets |-> LPush(order.tickets, order.next)]
          /\ Ended(t, "retried")
          /\ UNCHANGED <<faults, hist>>
       \/ /\ Ended(t, "enqueue_failed")
          /\ NoteFault(t)
          /\ Fault(FALSE)
          /\ UNCHANGED <<queue, order>>
    /\ UNCHANGED <<running, loopPc, dlq, review, resultRows, comments, limiter,
                   llmFaults>>
    /\ UNCHANGED <<max_retries, pr_id, limiterVars, pureVars>>

NextOrchestrator ==
    \/ LoopDequeue
    \/ LoopDequeueNone
    \/ \E t \in Tasks : CreatePrReview(t)
    \/ \E t \in Tasks : MarkProcessing(t)
    \/ \E t \in Tasks : LimiterWait(t)
    \/ \E t \in Tasks : GetPrDiff(t)
    \/ \E t \in Tasks : Scout(t)
    \/ \E t \in Tasks : GatherWait(t)
    \/ \E t \in Tasks : GatherAgents(t)
    \/ \E t \in Tasks : GetPrDetails(t)
    \/ \E t \in Tasks : Synthesizer(t)
    \/ \E t \in Tasks : SaveReviewResult(t)
    \/ \E t \in Tasks : SaveApiUsage(t)
    \/ \E t \in Tasks : PostPrComment(t)
    \/ \E t \in Tasks : MarkCompleted(t)
    \/ \E t \in Tasks : MarkFailed(t)
    \/ \E t \in Tasks : EnqueueDlq(t)
    \/ \E t \in Tasks : RetrySleepTick(t)
    \/ \E t \in Tasks : RetrySleep(t)
    \/ \E t \in Tasks : Enqueue(t)

(***************************************************************************)
(* Synthesis and assembly of one review: synthesizer.py, and lines 202-242 *)
(* of process_task with the values of the results                          *)
(***************************************************************************)

Stages == {"scout", "guardian", "architect", "stylist"}

\* What an analysis can answer.
Outputs == {"LGTM", "1 issue found"}

\* An AgentResult that has not been produced yet.
NoResult == [output |-> "unset", tokens_used |-> 0, error |-> "unset"]

\* The AgentResult an agent returns when its call succeeded: error is None.
RealResult(out, n) == [output |-> out, tokens_used |-> n, error |-> "null"]

\* The output of the AgentResult an agent's handler builds (scout.py line 79,
\* guardian.py line 79, architect.py line 99, stylist.py line 94).
DegradedOutput(a) ==
    CASE a = "scout" -> "diff"
      [] a = "guardian" -> "Security analysis failed. Please review manually."
      [] a = "architect" ->
            "Architectural analysis failed. Please review manually."
      [] a = "stylist" -> "Style analysis failed. Please review manually."

\* The AgentResult of a failed call: error = str(e); tokens_used is what the
\* try block had assigned before the exception.
DegradedResult(a, n) ==
    [output |-> DegradedOutput(a), tokens_used |-> n, error |-> "error"]

AgentResults(a) ==
    {RealResult(out, n) : out \in Outputs, n \in 0..MaxTokens}
        \cup {DegradedResult(a, n) : n \in 0..MaxTokens}

\* Python's truth value of an Optional[str].
Truthy(x) == x \notin {"null", ""}

\* A test that takes every result.
SucceededAlways(r) == TRUE

\* guardian_result and not guardian_result.error (lines 120, 125, 130)
Succeeded(r) == ~Truthy(r.error)

Header(a) ==
    CASE a = "guardian" -> "### Security Review\n"
      [] a = "architect" -> "### Architecture Review\n"
      [] a = "stylist" -> "### Style Review\n"

\* The parts one result adds to comment_parts.
Section(a, r) == IF Succeeded(r) THEN <<Header(a), r.output, "\n\n">> ELSE <<>>

\* _create_fallback_comment: the text is "".join(comment_parts); it is kept
\* as the sequence of its parts.
CreateFallbackComment(results) ==
    <<"## Code Review Summary\n\n">>
        \o Section("guardian", results["guardian"])
        \o Section("architect", results["architect"])
        \o Section("stylist", results["stylist"])

\* A sum that leaves the synthesizer out.
TotalTokensOfAnalyses(results, synth) ==
    results["scout"].tokens_used + results["guardian"].tokens_used
        + results["architect"].tokens_used + results["stylist"].tokens_used

\* total_tokens, lines 216-222
TotalTokens(results, synth) ==
    results["scout"].tokens_used + results["guardian"].tokens_used
        + results["architect"].tokens_used + results["stylist"].tokens_used
        + synth.tokens_used

NoReviewResult == [final_comment |-> <<>>, total_tokens |-> -1]

\* No review is being assembled.
ReviewIdle ==
    /\ agent_results = [a \in Stages |-> NoResult]
    /\ synthesizer_result = NoResult
    /\ review_result = NoReviewResult
    /\ review_results = <<>>

\* Scout and the three analyses have returned (line 191), each with a real
\* or a degraded result.
InitReview ==
    /\ agent_results \in [Stages -> UNION {AgentResults(a) : a \in Stages}]
    /\ \A a \in Stages : agent_results[a] \in AgentResults(a)
    /\ synthesizer_result = NoResult
    /\ review_result = NoReviewResult
    /\ review_results = <<>>

\* synthesizer.analyze, synthesizer.py lines 65-109: the call returns the
\* synthesized comment, or fails and the fallback comment is built.
SynthesizerAnalyze ==
    /\ synthesizer_result = NoResult
    /\ \E n \in 0..MaxTokens :
        \/ \E out \in Outputs :
              synthesizer_result' = RealResult(<<out>>, n)
        \/ synthesizer_result' =
              [output |-> CreateFallbackComment(agent_results),
               tokens_used |-> n, error |-> "error"]
    /\ UNCHANGED <<agent_results, review_result, review_results>>
    /\ UNCHANGED besideReview

\* Lines 216-239: total_tokens and the ReviewResult.
AssembleReviewResult ==
    /\ synthesizer_result # NoResult
    /\ review_result = NoReviewResult
    /\ review_result' =
          [final_comment |-> synthesizer_result.output,
           total_tokens |-> TotalTokens(agent_results, synthesizer_result)]
    /\ UNCHANGED <<agent_results, synthesizer_result, review_results>>
    /\ UNCHANGED besideReview

\* db.save_review_result (database.py lines 168-189): final_comment and
\* total_tokens of the ReviewResult go into a new row.
InsertReviewResult ==
    /\ review_result # NoReviewResult
    /\ review_results = <<>>
    /\ review_results' = Append(review_results,
                                [final_comment |-> review_result.final_comment,
                                 total_tokens |-> review_result.total_tokens])
    /\ UNCHANGED <<agent_results, synthesizer_result, review_result>>
    /\ UNCHANGED besideReview

NextReview ==
    \/ SynthesizerAnalyze
    \/ AssembleReviewResult
    \/ InsertReviewResult

(***************************************************************************)
(* DiffParser (backend/services/diff_parser.py)                            *)
(***************************************************************************)

\* File paths: one that no pattern of NOISE_PATTERNS matches and one that
\* r'yarn\.lock$' (and r'\.lock$') matches.
Paths == {"src/app.py", "yarn.lock"}

\* A capture group of the hunk-header pattern that did not take part.
Absent == -1

\* A line of a diff, by the branch of parse_diff's loop that takes it.
\* "diff --git a/<old_path> b/<new_path>":
DiffLine(o, n) ==
    [kind |-> "diff", old_path |-> o, new_path |-> n,
     removed |-> 0, added |-> 0]

\* "@@ -s,<removed> +s,<added> @@", each count possibly left out:
HunkLine(r, a) ==
    [kind |-> "hunk", old_path |-> "", new_path |-> "",
     removed |-> r, added |-> a]

\* "index ..." ("index"), "Binary files ..." ("binary"), "new file mode ..."
\* ("new"), "deleted file mode ..." ("deleted"), a line that starts with
\* "diff --git" and does not match the pattern of line 63 ("diff_bad"), a
\* line starting with "+" but not "+++" ("add"), with
\* "-" but not "---" ("remove"), with "+++" ("add3"), with "---"
\* ("remove3"), and any other line ("context").
OtherLine(k) ==
    [kind |-> k, old_path |-> "", new_path |-> "", removed |-> 0, added |-> 0]

OtherKinds == {"index", "binary", "new", "deleted", "add", "remove", "add3",
               "remove3", "context"}

DiffLines == {DiffLine(o, n) : o, n \in Paths}

\* The lines that start with "diff --git": those of the expected form and
\* one that is not (e.g. the paths quoted, or without the a/ b/ prefixes).
HeaderLines == DiffLines \cup {OtherLine("diff_bad")}

BodyLines ==
    {HunkLine(r, a) : r, a \in {Absent} \cup (0..MaxHunkCount)}
        \cup {OtherLine(k) : k \in OtherKinds}

\* The diffs parse_diff is given: the empty text, and texts of up to MaxLines
\* lines that start with a "diff --git" line, as the diff of a pull request
\* does.
DiffTexts ==
    {<<>>} \cup
    {<<h>> \o r : h \in HeaderLines,
                  r \in UNION {[1..n -> HeaderLines \cup BodyLines] :
                                  n \in 0..(MaxLines - 1)}}

\* The dict of lines 67-73; is_binary and is_deleted are absent (falsy)
\* until set.
FileEntry(o, n) ==
    [old_path |-> o, new_path |-> n, content |-> <<>>, added_lines |-> 0,
     removed_lines |-> 0, is_binary |-> FALSE, is_deleted |-> FALSE]

\* int(match.group(2) or 1), int(match.group(4) or 1)
HunkCount(g) == IF g = Absent THEN 1 ELSE g

\* Lines 58-60 and 126-128: the current file, if any, gets its content (the
\* lines kept for it, joined) and is appended.  current_file is a dict: the
\* elements of files that are this same dict (st.aliases, appended at a
\* "diff --git" line that did not replace current_file) show its keys as
\* they are now.
Closed(st) ==
    IF st.has_file
    THEN LET f == [st.current_file EXCEPT !.content = st.current_lines]
         IN  [i \in 1..(Len(st.files) + 1) |->
                 IF i \in st.aliases \cup {Len(st.files) + 1} THEN f
                 ELSE st.files[i]]
    ELSE st.files

\* One pass of the loop of lines 55-123.
ParseLine(st, line) ==
    CASE line.kind = "diff" ->
            [files |-> Closed(st),
             current_file |-> FileEntry(line.old_path, line.new_path),
             has_file |-> TRUE,
             current_lines |-> <<line>>,
             aliases |-> {}]
      [] line.kind = "diff_bad" ->
            IF st.has_file
            THEN [st EXCEPT !.files = Closed(st),
                            !.aliases = @ \cup {Len(st.files) + 1}]
            ELSE st
      [] line.kind \in {"index", "new"} ->
            IF st.has_file
            THEN [st EXCEPT !.current_lines = Append(@, line)]
            ELSE st
      [] line.kind = "binary" ->
            IF st.has_file
            THEN [st EXCEPT !.current_lines = Append(@, line),
                            !.current_file.is_binary = TRUE]
            ELSE st
      [] line.kind = "deleted" ->
            IF st.has_file
            THEN [st EXCEPT !.current_lines = Append(@, line),
                            !.current_file.is_deleted = TRUE]
            ELSE st
      [] line.kind = "hunk" ->
            IF st.has_file
            THEN [st EXCEPT
                    !.current_lines = Append(@, line),
                    !.current_file.removed_lines = @ + HunkCount(line.removed),
                    !.current_file.added_lines = @ + HunkCount(line.added)]
            ELSE st
      [] OTHER ->
            IF st.has_file
            THEN [st EXCEPT
                    !.current_lines = Append(@, line),
                    !.current_file.added_lines =
                        IF line.kind = "add" THEN @ + 1 ELSE @,
                    !.current_file.removed_lines =
                        IF line.kind = "remove" THEN @ + 1 ELSE @]
            ELSE st

RECURSIVE ParseFrom(_, _, _)
ParseFrom(st, lines, i) ==
    IF i > Len(lines) THEN st
    ELSE ParseFrom(ParseLine(st, lines[i]), lines, i + 1)

\* parse_diff, lines 45-130
ParseDiff(lines) ==
    IF lines = <<>> THEN <<>>
    ELSE Closed(ParseFrom([files |-> <<>>, current_file |-> FileEntry("", ""),
                           has_file |-> FALSE, current_lines |-> <<>>,
                           aliases |-> {}],
                          lines, 1))

\* is_noise_file on the paths of the model: r'yarn\.lock$' matches
\* "yarn.lock"; no pattern matches "src/app.py" or the empty path.
IsNoiseFile(filepath) == filepath = "yarn.lock"

\* A filter that looks at the old path first.
EffectivePathOldFirst(f) ==
    IF Truthy(f.old_path) THEN f.old_path ELSE f.new_path

\* file_info.get('new_path') or file_info.get('old_path', ''), line 135
EffectivePath(f) == IF Truthy(f.new_path) THEN f.new_path ELSE f.old_path

\* filter_noise, lines 132-138
FilterNoise(fs) == SelectSeq(fs, LAMBDA f : ~IsNoiseFile(EffectivePath(f)))

\* The lists a caller hands to filter_noise: up to MaxFiles entries, a path
\* of an entry possibly empty.
FileLists ==
    UNION {[1..n -> {FileEntry(o, n2) : o, n2 \in Paths \cup {""}}] :
              n \in 0..MaxFiles}

\* get_file_summary, lines 185-201: the status of one file ...
FileStatus(f) ==
    IF f.is_deleted THEN "deleted"
    ELSE IF f.is_binary THEN "binary"
    ELSE IF ~Truthy(f.old_path) THEN "new"
    ELSE "modified"

\* ... and the parts of the line "<status>: <filepath> (+<added>/-<removed>)".
SummaryLine(f) ==
    [status |-> FileStatus(f), filepath |-> EffectivePath(f),
     added |-> f.added_lines, removed |-> f.removed_lines]

\* The parser has not been called.
ParserIdle ==
    /\ summary = <<>>
    /\ diff_text = <<>>
    /\ files = <<>>
    /\ filtered_files = <<>>
    /\ refiltered_files = <<>>
    /\ parser_pc = "idle"

\* process_diff is called with a diff, or filter_noise with a list.
InitParser ==
    /\ summary = <<>>
    /\ filtered_files = <<>>
    /\ refiltered_files = <<>>
    /\ \/ /\ parser_pc = "parse"
          /\ diff_text \in DiffTexts
          /\ files = <<>>
       \/ /\ parser_pc = "filter"
          /\ diff_text = <<>>
          /\ files \in FileLists

\* process_diff line 175: files = self.parse_diff(diff_text)
ProcessDiffParse ==
    /\ parser_pc = "parse"
    /\ files' = ParseDiff(diff_text)
    /\ parser_pc' = "filter"
    /\ UNCHANGED <<diff_text, filtered_files, refiltered_files, summary>>
    /\ UNCHANGED besideParser

\* process_diff line 178, or a direct call: self.filter_noise(files)
ProcessDiffFilter ==
    /\ parser_pc = "filter"
    /\ filtered_files' = FilterNoise(files)
    /\ parser_pc' = "refilter"
    /\ UNCHANGED <<diff_text, files, refiltered_files, summary>>
    /\ UNCHANGED besideParser

\* filter_noise called on the list it returned.
FilterNoiseAgain ==
    /\ parser_pc = "refilter"
    /\ refiltered_files' = FilterNoise(filtered_files)
    /\ parser_pc' = "done"
    /\ UNCHANGED <<diff_text, files, filtered_files, summary>>
    /\ UNCHANGED besideParser

\* get_file_summary(files) on the list parse_diff returned.
GetFileSummary ==
    /\ parser_pc = "done"
    /\ diff_text # <<>>
    /\ summary = <<>>
    /\ summary' = [k \in 1..Len(files) |-> SummaryLine(files[k])]
    /\ UNCHANGED <<diff_text, files, filtered_files, refiltered_files,
                   parser_pc>>
    /\ UNCHANGED besideParser

NextParser ==
    \/ ProcessDiffParse
    \/ ProcessDiffFilter
    \/ FilterNoiseAgain
    \/ GetFileSummary

(***************************************************************************)
(* DiffParser.chunk_large_file (diff_parser.py lines 140-165)              *)
(***************************************************************************)

\* The characters of the texts: a letter and the newline.
Chars == {"a", "\n"}

\* The texts handed to chunk_large_file.
Contents == UNION {[1..n -> Chars] : n \in 0..MaxContent}

\* The index of the first newline of s (s holds one).
FirstNewline(s) ==
    CHOOSE i \in 1..Len(s) : s[i] = "\n" /\ \A j \in 1..(i - 1) : s[j] # "\n"

\* file_content.split('\n'): the lines between the newlines, one more than
\* there are newlines.
RECURSIVE Split(_)
Split(s) ==
    IF \A i \in 1..Len(s) : s[i] # "\n"
    THEN <<s>>
    ELSE <<SubSeq(s, 1, FirstNewline(s) - 1)>>
            \o Split(SubSeq(s, FirstNewline(s) + 1, Len(s)))

\* '\n'.join(lines)
RECURSIVE Join(_)
Join(lines) ==
    IF lines = <<>> THEN <<>>
    ELSE IF Len(lines) = 1 THEN lines[1]
    ELSE lines[1] \o <<"\n">> \o Join(Tail(lines))

\* line_size = len(line) + 1, line 153
LineSize(line) == Len(line) + 1

\* A flush that starts the next chunk empty.
FlushedWithoutLine(st, line) ==
    [chunks |-> Append(st.chunks, Join(st.current_chunk)),
     current_chunk |-> <<>>,
     current_size |-> 0]

\* Lines 155-157: the current chunk is closed and the line starts the next.
Flushed(st, line) ==
    [chunks |-> Append(st.chunks, Join(st.current_chunk)),
     current_chunk |-> <<line>>,
     current_size |-> LineSize(line)]

\* One pass of the loop of lines 152-160; "and current_chunk" is the test
\* that the list is not empty.
ChunkLine(st, line, size) ==
    IF st.current_size + LineSize(line) > size /\ st.current_chunk # <<>>
    THEN Flushed(st, line)
    ELSE [st EXCEPT !.current_chunk = Append(@, line),
                    !.current_size = @ + LineSize(line)]

RECURSIVE ChunkFrom(_, _, _, _)
ChunkFrom(st, lines, i, size) ==
    IF i > Len(lines) THEN st
    ELSE ChunkFrom(ChunkLine(st, lines[i], size), lines, i + 1, size)

\* chunk_large_file, lines 144-165 (max_size given).
ChunkLargeFile(content, size) ==
    IF Len(content) <= size
    THEN <<content>>
    ELSE LET st == ChunkFrom([chunks |-> <<>>, current_chunk |-> <<>>,
                              current_size |-> 0],
                             Split(content), 1, size)
         IN  IF st.current_chunk # <<>>
             THEN Append(st.chunks, Join(st.current_chunk))
             ELSE st.chunks

\* chunk_large_file has not been called.
ChunkIdle ==
    /\ file_content = <<>>
    /\ max_size = 0
    /\ chunks = <<>>
    /\ chunk_pc = "idle"

\* chunk_large_file is called with a text and a size.
InitChunk ==
    /\ file_content \in Contents
    /\ max_size \in 0..MaxChunkSize
    /\ chunks = <<>>
    /\ chunk_pc = "call"

\* The call returns its list.
ChunkLargeFileReturn ==
    /\ chunk_pc = "call"
    /\ chunks' = ChunkLargeFile(file_content, max_size)
    /\ chunk_pc' = "done"
    /\ UNCHANGED <<file_content, max_size>>
    /\ UNCHANGED besideChunk

NextChunk == ChunkLargeFileReturn

(***************************************************************************)
(* RateLimiter instances with acquire() as one step                        *)
(*                                                                         *)
(* Lines 33-45 hold no await, so the event loop runs a call of acquire()   *)
(* from the taking of the lock to its release without another coroutine in *)
(* between.  wait() is a loop of such calls with sleeps between them.      *)
(***************************************************************************)

\* RateLimiter.__init__ at time t.
NewLimiter(r, p, t) == [rate |-> r, per |-> p, tokens |-> r, last_refill |-> t]

\* self.tokens after the refill of lines 36-40 at time t.
Post(b, t) == Refilled(b.tokens, t - b.last_refill, b.rate, b.per)

\* acquire() at time t returns True.
Grants(b, t) == HasToken(Post(b, t))

\* A refill that sets last_refill on every call.
LastRefillAlwaysNow(b, t) == t

\* self.last_refill after lines 38-40: now, when tokens_to_add > 0.
LastRefill(b, t) ==
    IF TokensToAdd(t - b.last_refill, b.rate, b.per) > 0 THEN t
    ELSE b.last_refill

\* The instance after acquire() at time t.
Acquire(b, t) ==
    [b EXCEPT !.tokens = IF Grants(b, t) THEN Post(b, t) - 1 ELSE Post(b, t),
              !.last_refill = LastRefill(b, t)]

\* Instances that share their tokens and last_refill (class attributes).
AcquireOnAll(is, l, t) == [m \in DOMAIN is |-> Acquire(is[m], t)]

\* self.<l>_limiter.acquire(): the call works on the attributes of its own
\* instance.
AcquireOn(is, l, t) == [is EXCEPT ![l] = Acquire(@, t)]

NoWindow == [open |-> FALSE, of |-> "none", start |-> 0, granted |-> 0,
             fresh |-> FALSE]

\* No RateLimiter of this part has been constructed.
InstancesIdle ==
    /\ instances = <<>>
    /\ now = 0
    /\ last_call = "none"
    /\ window = NoWindow

\* Orchestrator.__init__, lines 64-66: three instances with the same period
\* (60 seconds, per ticks of the clock).
InitLimiters ==
    /\ instances \in {[l \in Limiters |-> NewLimiter(LimiterRate, p, 0)] :
                         p \in 1..MaxPer}
    /\ now = 0
    /\ last_call = "none"
    /\ window = NoWindow

\* One instance of any rate and period.
InitRefill ==
    /\ instances \in {[l \in {"github"} |-> NewLimiter(r, p, 0)] :
                         r \in 1..MaxRate, p \in 1..MaxPer}
    /\ now = 0
    /\ last_call = "none"
    /\ window = NoWindow

\* acquire() is called on instance l, by a caller or by an iteration of
\* wait().
InstanceAcquire(l) ==
    /\ instances' = AcquireOn(instances, l, now)
    /\ last_call' = l
    /\ window' = IF window.open /\ window.of = l /\ Grants(instances[l], now)
                 THEN [window EXCEPT !.granted = @ + 1]
                 ELSE window
    /\ UNCHANGED now
    /\ UNCHANGED besideInstances

\* A tick of the clock.
ClockTick ==
    /\ now < MaxNow
    /\ now' = now + 1
    /\ last_call' = "none"
    /\ UNCHANGED <<instances, window>>
    /\ UNCHANGED besideInstances

\* History: an interval begins now, the bucket of l being full; fresh when
\* last_refill is the current time.
WindowStart(l) ==
    /\ ~window.open
    /\ instances[l].tokens = instances[l].rate
    /\ window' = [open |-> TRUE, of |-> l, start |-> now, granted |-> 0,
                  fresh |-> instances[l].last_refill = now]
    /\ UNCHANGED <<instances, now, last_call>>
    /\ UNCHANGED besideInstances

NextLimiters ==
    \/ \E l \in DOMAIN instances : InstanceAcquire(l)
    \/ ClockTick

NextRefill ==
    \/ \E l \in DOMAIN instances : InstanceAcquire(l)
    \/ ClockTick
    \/ \E l \in DOMAIN instances : WindowStart(l)

(***************************************************************************)
(* The Scout's result and the text handed to the analyses: scout.py, and   *)
(* lines 120-146 of process_task                                           *)
(***************************************************************************)

\* The filtered diffs process_diff returns.
Diffs == {"", "diff 1", "diff 2"}

\* response.choices[0].message.content of a call that returned.
ScoutOutputs == Diffs \cup {"reduced diff"}

\* str(e) of a failed call.
ScoutErrors == {"timeout", "rate limit"}

\* An AgentResult of the Scout that lost its input.
ScoutDegradedEmpty(diff, n, e) ==
    [output |-> "", tokens_used |-> n, error |-> e]

\* scout.py lines 74-84: output=diff, error=str(e).
ScoutDegraded(diff, n, e) ==
    [output |-> diff, tokens_used |-> n, error |-> e]

\* Line 131: scout_result.output if not scout_result.error else filtered_diff
ForReview(r, diff) == IF ~Truthy(r.error) THEN r.output ELSE diff

NoInput == [a \in Agents |-> "unset"]

ScoutIdle ==
    /\ filtered_diff = ""
    /\ scout_result = NoResult
    /\ scout_failed = FALSE
    /\ filtered_for_review = "unset"
    /\ stage_input = NoInput
    /\ scout_pc = "idle"

\* Line 120 has returned filtered_diff.
InitScout ==
    /\ filtered_diff \in Diffs
    /\ scout_result = NoResult
    /\ scout_failed = FALSE
    /\ filtered_for_review = "unset"
    /\ stage_input = NoInput
    /\ scout_pc = "scout"

\* Lines 124-128: scout.analyze(filtered_diff, ...) returns the model's
\* text, or its input with error set when anything in its try block raised.
ScoutAnalyze ==
    /\ scout_pc = "scout"
    /\ \E n \in 0..MaxTokens :
          \/ /\ \E out \in ScoutOutputs : scout_result' = RealResult(out, n)
             /\ scout_failed' = FALSE
          \/ /\ \E e \in ScoutErrors :
                   scout_result' = ScoutDegraded(filtered_diff, n, e)
             /\ scout_failed' = TRUE
    /\ scout_pc' = "select"
    /\ UNCHANGED <<filtered_diff, filtered_for_review, stage_input>>
    /\ UNCHANGED besideScout

\* Line 131.
SelectForReview ==
    /\ scout_pc = "select"
    /\ filtered_for_review' = ForReview(scout_result, filtered_diff)
    /\ scout_pc' = "guardian"
    /\ UNCHANGED <<filtered_diff, scout_result, scout_failed, stage_input>>
    /\ UNCHANGED besideScout

\* Lines 134-146: guardian.analyze, architect.analyze and stylist.analyze
\* are called with filtered_for_review, one after the other.
BuildAnalysis ==
    /\ scout_pc \in Agents
    /\ stage_input' = [stage_input EXCEPT ![scout_pc] = filtered_for_review]
    /\ scout_pc' = CASE scout_pc = "guardian" -> "architect"
                     [] scout_pc = "architect" -> "stylist"
                     [] scout_pc = "stylist" -> "done"
    /\ UNCHANGED <<filtered_diff, scout_result, scout_failed,
                   filtered_for_review>>
    /\ UNCHANGED besideScout

NextScout ==
    \/ ScoutAnalyze
    \/ SelectForReview
    \/ BuildAnalysis

(***************************************************************************)
(* Queue.enqueue, Queue.dequeue (backend/services/queue.py) and            *)
(* handle_webhook (backend/api/webhook.py)                                 *)
(***************************************************************************)

\* What a command sent to Redis can raise (redis.ConnectionError,
\* redis.TimeoutError).
StoreErrors == {"ConnectionError", "TimeoutError"}

\* task.model_dump_json(): the JSON text of a PRTask.
Dump(task) == [kind |-> "PRTask json", id |-> task.id,
               retry_count |-> task.retry_count]

\* A payload json.loads or PRTask(**task_dict) raises on.
Undecodable == [kind |-> "text", id |-> 0, retry_count |-> 0]

\* json.loads(task_data) and PRTask(**task_dict) of lines 57-61 both return.
Decodable(payload) == payload.kind = "PRTask json"

\* PRTask(**json.loads(task_data)), for a decodable payload.
Load(payload) == Task(payload.id, payload.retry_count)

\* The payloads of a Redis list.
Payloads == {Dump(Task(t, n)) : t \in Tasks, n \in 0..1} \cup {Undecodable}

\* What await self.client.<command>(...) raises: AttributeError when client
\* is None, else what the store raises ("none": the command returns).
ClientRaises(c, outcome) == IF c = "none" THEN "AttributeError" ELSE outcome

\* An enqueue whose handler is "except redis.RedisError".
EnqueueCatchesRedisErrors(e) == e \in StoreErrors

\* except Exception (queue.py line 47)
EnqueueCatches(e) == TRUE

NoCall == [op |-> "none", before |-> <<>>, task |-> Task(0, 0),
           error |-> "none", result |-> "none", raised |-> FALSE]

NoRequest == [signature |-> [prefix |-> "", mac |-> <<"", "">>],
              body |-> "", event |-> "", action |-> "", complete |-> FALSE,
              number |-> 0]

FrontIdle ==
    /\ client = "none"
    /\ store = <<>>
    /\ qcall = NoCall
    /\ request = NoRequest
    /\ response = 0

\* A process that has or has not called queue.connect(), and a Redis list
\* with any payloads on it.
InitQueue ==
    /\ client \in {"none", "connected"}
    /\ store \in UNION {[1..n -> Payloads] : n \in 0..MaxStore}
    /\ qcall = NoCall
    /\ request = NoRequest
    /\ response = 0

\* Queue.enqueue(task), lines 41-49.
QueueEnqueue ==
    /\ Len(store) < MaxStore
    /\ \E t \in Tasks, n \in 0..1, outcome \in {"none"} \cup StoreErrors :
        LET e == ClientRaises(client, outcome) IN
            /\ store' = IF e = "none" THEN LPush(store, Dump(Task(t, n)))
                        ELSE store
            /\ qcall' = [op |-> "enqueue", before |-> store,
                         task |-> Task(t, n), error |-> e,
                         result |-> IF e = "none" THEN "True"
                                    ELSE IF EnqueueCatches(e) THEN "False"
                                    ELSE "none",
                         raised |-> e # "none" /\ ~EnqueueCatches(e)]
    /\ UNCHANGED <<client, request, response>>
    /\ UNCHANGED besideFront

\* Queue.dequeue(timeout), lines 51-67: BRPOP returns nothing when the list
\* stays empty for the timeout, else it has taken the rightmost payload off
\* the list; the payload is then decoded.  Every exception ends in return
\* None.
QueueDequeue ==
    /\ \E outcome \in {"none"} \cup StoreErrors :
        LET e == ClientRaises(client, outcome)
            popped == e = "none" /\ Len(store) > 0
            returned == popped /\ Decodable(RPeek(store))
        IN  /\ store' = IF popped THEN RPopped(store) ELSE store
            /\ qcall' = [op |-> "dequeue", before |-> store,
                         task |-> IF returned THEN Load(RPeek(store))
                                  ELSE Task(0, 0),
                         error |-> IF popped /\ ~returned THEN "decode error"
                                   ELSE e,
                         result |-> IF returned THEN "PRTask" ELSE "None",
                         raised |-> FALSE]
    /\ UNCHANGED <<client, request, response>>
    /\ UNCHANGED besideFront

NextQueue ==
    \/ QueueEnqueue
    \/ QueueDequeue

\* hmac.new(secret, payload, hashlib.sha256).hexdigest()
Hmac(key, payload) == <<key, payload>>

\* The X-Hub-Signature-256 headers of a request: none (""), or a prefix and
\* the digest of some body under some key.
Signatures ==
    {[prefix |-> p, mac |-> Hmac(k, b)] :
        p \in {"sha256=", "sha1="}, k \in {"webhook secret", "another key"},
        b \in {"json payload", "not json"}}
        \cup {NoRequest.signature}

\* The requests: the signature header, the body, X-GitHub-Event as the
\* caller passed it ("Header(...)": the parameter's default), and what the
\* payload holds: "action", the fields PRMetadata requires or not, the
\* pull request's number.
Requests ==
    [signature : Signatures, body : {"json payload", "not json"},
     event : {"pull_request", "ping", "push", "Header(...)"},
     action : {"opened", "synchronize", "closed"}, complete : BOOLEAN,
     number : Tasks]

\* verify_webhook_signature(payload, signature), lines 14-29.
VerifyWebhookSignature(payload, signature) ==
    /\ signature.prefix # ""
    /\ signature.prefix = "sha256="
    /\ Hmac("webhook secret", payload) = signature.mac

\* Lines 50-54: the request reaches the construction of the task.
ForReviewQueue(req) ==
    /\ req.event = "pull_request"
    /\ req.action \in {"opened", "synchronize"}

\* What is raised inside the try block of handle_webhook (lines 33-104)
\* before queue.enqueue is called; "none" when nothing is.
RaisedBeforeEnqueue(req) ==
    IF ~VerifyWebhookSignature(req.body, req.signature)
    THEN "HTTPException 401"
    ELSE IF req.body = "not json" THEN "JSONDecodeError"
    ELSE IF ForReviewQueue(req) /\ ~req.complete THEN "ValidationError"
    ELSE "none"

\* The status of the response: the except clauses of lines 106-111 turn a
\* JSONDecodeError into HTTPException(400) and every other Exception, the
\* HTTPException of lines 41 and 92 included, into HTTPException(500).
ResponseStatus(raised) ==
    IF raised = "none" THEN 200
    ELSE IF raised = "JSONDecodeError" THEN 400
    ELSE 500

\* handle_webhook(request, x_github_event, x_github_delivery), lines 32-111.
HandleWebhook ==
    /\ response = 0
    /\ \E req \in Requests, outcome \in {"none"} \cup StoreErrors :
        LET before == RaisedBeforeEnqueue(req)
            called == before = "none" /\ ForReviewQueue(req)
            e == ClientRaises(client, outcome)
            success == called /\ e = "none"
            raised == IF called /\ ~success THEN "HTTPException 500"
                      ELSE before
        IN  /\ request' = req
            /\ store' = IF success
                        THEN LPush(store, Dump(Task(req.number, 0)))
                        ELSE store
            /\ qcall' = [op |-> IF called THEN "enqueue" ELSE "none",
                         before |-> store, task |-> Task(req.number, 0),
                         error |-> IF called THEN e ELSE "none",
                         result |-> IF success THEN "True"
                                    ELSE IF called THEN "False" ELSE "none",
                         raised |-> FALSE]
            /\ response' = ResponseStatus(raised)
    /\ UNCHANGED client
    /\ UNCHANGED besideFront

\* The API process (main.py never calls queue.connect()) or a process that
\* has connected, a list with any payloads on it, and a request to handle.
InitWebhook ==
    /\ client \in {"none", "connected"}
    /\ store \in UNION {[1..n -> Payloads] : n \in 0..MaxStore - 1}
    /\ qcall = NoCall
    /\ request = NoRequest
    /\ response = 0

(***************************************************************************)
(* Specifications                                                          *)
(***************************************************************************)

\* The limiter instance of SpecLimiter stays as constructed in Spec.
LimiterAtRest ==
    /\ InitLimiter
    /\ rate = 1
    /\ per = 1

\* SpecLimiter: one RateLimiter and its callers; the Orchestrator is not
\* started.
InitLimiterOnly ==
    /\ InitLimiter
    /\ InitOrchestrator(0)
    /\ llmFaults = FALSE
    /\ faults = 0
    /\ max_retries = DefaultMaxRetries
    /\ pr_id = DistinctPrs
    /\ ReviewIdle
    /\ ParserIdle
    /\ ChunkIdle
    /\ InstancesIdle
    /\ ScoutIdle
    /\ FrontIdle

SpecLimiter == InitLimiterOnly /\ [][NextLimiter]_vars

\* SpecWaiters: a finite set of calls on one limiter.  Time advances, and
\* the event loop resumes every coroutine that can run: each caller's next
\* step is taken when it stays possible.
InitWaitersOnly ==
    /\ InitWaiters
    /\ InitOrchestrator(0)
    /\ llmFaults = FALSE
    /\ faults = 0
    /\ max_retries = DefaultMaxRetries
    /\ pr_id = DistinctPrs
    /\ ReviewIdle
    /\ ParserIdle
    /\ ChunkIdle
    /\ InstancesIdle
    /\ ScoutIdle
    /\ FrontIdle

SpecWaiters ==
    /\ InitWaitersOnly
    /\ [][NextWaiters]_vars
    /\ WF_vars(Tick)
    /\ \A c \in Callers : WF_vars(CallerStep(c))

\* Spec: the Orchestrator with one queued task and the default ceiling; every
\* call of a collaborator and every LLM call can fail.  stop() is not called.
Init ==
    /\ LimiterAtRest
    /\ InitOrchestrator(1)
    /\ llmFaults = TRUE
    /\ faults = MaxFaults
    /\ max_retries = DefaultMaxRetries
    /\ pr_id = DistinctPrs
    /\ ReviewIdle
    /\ ParserIdle
    /\ ChunkIdle
    /\ InstancesIdle
    /\ ScoutIdle
    /\ FrontIdle

Next == NextOrchestrator

Spec == Init /\ [][Next]_vars

\* SpecTasks: the Orchestrator with NumTasks queued tasks, in flight together;
\* every call of a collaborator can fail, the LLM calls return.
InitTasks ==
    /\ LimiterAtRest
    /\ InitOrchestrator(NumTasks)
    /\ llmFaults = FALSE
    /\ faults = TasksMaxFaults
    /\ max_retries = TasksMaxRetries
    /\ pr_id = DistinctPrs
    /\ ReviewIdle
    /\ ParserIdle
    /\ ChunkIdle
    /\ InstancesIdle
    /\ ScoutIdle
    /\ FrontIdle

SpecTasks == InitTasks /\ [][Next]_vars

\* SpecSamePr: as SpecTasks, with all the tasks for one pull request (the
\* pull request was opened and then pushed to): they share a pr_reviews row.
InitSamePr ==
    /\ LimiterAtRest
    /\ InitOrchestrator(NumTasks)
    /\ llmFaults = FALSE
    /\ faults = TasksMaxFaults
    /\ max_retries = TasksMaxRetries
    /\ pr_id = SamePr
    /\ ReviewIdle
    /\ ParserIdle
    /\ ChunkIdle
    /\ InstancesIdle
    /\ ScoutIdle
    /\ FrontIdle

SpecSamePr == InitSamePr /\ [][Next]_vars

\* SpecLoop: as SpecTasks, with the main loop of start() always running on:
\* its dequeue has a timeout, so an iteration that can be taken is taken.
\* Nothing is assumed about the executions of process_task: any of them may
\* stay suspended for ever.
SpecLoop == InitTasks /\ [][Next]_vars /\ WF_vars(LoopDequeue)

\* SpecProgress: as Spec, with the event loop running whatever can run: the
\* main loop keeps polling and no coroutine of process_task is left
\* suspended for ever (every await returns or raises).
SpecProgress == Init /\ [][Next]_vars /\ WF_vars(Next)

\* SpecReview: the synthesis, the assembly and the saving of one review, for
\* every combination of real and degraded results of the four earlier
\* stages.
InitReviewOnly ==
    /\ LimiterAtRest
    /\ InitOrchestrator(0)
    /\ llmFaults = FALSE
    /\ faults = 0
    /\ max_retries = DefaultMaxRetries
    /\ pr_id = DistinctPrs
    /\ InitReview
    /\ ParserIdle
    /\ ChunkIdle
    /\ InstancesIdle
    /\ ScoutIdle
    /\ FrontIdle

SpecReview == InitReviewOnly /\ [][NextReview]_vars

\* SpecParser: the DiffParser on every diff and every file list within the
\* bounds.
InitParserOnly ==
    /\ LimiterAtRest
    /\ InitOrchestrator(0)
    /\ llmFaults = FALSE
    /\ faults = 0
    /\ max_retries = DefaultMaxRetries
    /\ pr_id = DistinctPrs
    /\ ReviewIdle
    /\ InitParser
    /\ ChunkIdle
    /\ InstancesIdle
    /\ ScoutIdle
    /\ FrontIdle

SpecParser == InitParserOnly /\ [][NextParser]_vars

\* SpecChunk: chunk_large_file on every text and every size within the
\* bounds.
InitChunkOnly ==
    /\ LimiterAtRest
    /\ InitOrchestrator(0)
    /\ llmFaults = FALSE
    /\ faults = 0
    /\ max_retries = DefaultMaxRetries
    /\ pr_id = DistinctPrs
    /\ ReviewIdle
    /\ ParserIdle
    /\ InitChunk
    /\ InstancesIdle
    /\ ScoutIdle
    /\ FrontIdle

SpecChunk == InitChunkOnly /\ [][NextChunk]_vars

\* The Orchestrator and the limiter of SpecLimiter are not started.
WorkerAtRest ==
    /\ LimiterAtRest
    /\ InitOrchestrator(0)
    /\ llmFaults = FALSE
    /\ faults = 0
    /\ max_retries = DefaultMaxRetries
    /\ pr_id = DistinctPrs
    /\ ReviewIdle
    /\ ParserIdle
    /\ ChunkIdle

\* SpecLimiters: the three limiters of the Orchestrator, called in any order
\* at any time.
InitLimitersOnly ==
    /\ WorkerAtRest
    /\ InitLimiters
    /\ ScoutIdle
    /\ FrontIdle

SpecLimiters == InitLimitersOnly /\ [][NextLimiters]_vars

\* SpecRefill: one limiter of any rate and period, called at any time, and
\* an interval that begins at any time with a full bucket.
InitRefillOnly ==
    /\ WorkerAtRest
    /\ InitRefill
    /\ ScoutIdle
    /\ FrontIdle

SpecRefill == InitRefillOnly /\ [][NextRefill]_vars

\* SpecScout: every filtered diff and every outcome of the Scout.
InitScoutOnly ==
    /\ WorkerAtRest
    /\ InstancesIdle
    /\ InitScout
    /\ FrontIdle

SpecScout == InitScoutOnly /\ [][NextScout]_vars

\* SpecQueue: calls of Queue.enqueue and Queue.dequeue, each of which can
\* fail in the store.
InitQueueOnly ==
    /\ WorkerAtRest
    /\ InstancesIdle
    /\ ScoutIdle
    /\ InitQueue

SpecQueue == InitQueueOnly /\ [][NextQueue]_vars

\* SpecWebhook: one call of handle_webhook, for every request.
InitWebhookOnly ==
    /\ WorkerAtRest
    /\ InstancesIdle
    /\ ScoutIdle
    /\ InitWebhook

SpecWebhook == InitWebhookOnly /\ [][HandleWebhook]_vars

\* SpecShutdown: as SpecTasks, and stop() can be called at any time.  The
\* dequeue of line 81 waits at most settings.worker_poll_interval seconds,
\* so the iteration of the loop that is in progress comes to its end.
NextShutdown == NextOrchestrator \/ Stop

SpecShutdown ==
    /\ InitTasks
    /\ [][NextShutdown]_vars
    /\ WF_vars(LoopDequeue \/ LoopDequeueNone)

(***************************************************************************)
(* Claims about the RateLimiter (checked under SpecLimiter)                *)
(***************************************************************************)

\* C5: in every reachable state of one RateLimiter instance, after any
\* sequence of acquire() calls and clock ticks by concurrent callers, the
\* available token count satisfies 0 <= tokens <= capacity (rate).
C5_TokensWithinCapacity == 0 <= tokens /\ tokens <= rate

\* A caller of wait() sleeps because the bucket ran empty, and another call
\* has just refilled the bucket up to its capacity.
C5_Witness ==
    \E c1, c2 \in Callers :
        /\ cpc[c1] = "sleep"
        /\ cpc[c2] = "check"
        /\ tokens = rate
        /\ elapsed = 0

\* C6: acquire() returns True if and only if at least one token is available
\* after the refill step of that same call; a call that returns True leaves
\* exactly one token fewer than its refill left, a call that returns False
\* leaves the count alone, and no call returns True on a post-refill count
\* of 0.
C6_AcquireIffTokenAfterRefill ==
    \A c \in Callers :
        cpc[c] = "ret" =>
            /\ cres[c] <=> (cpost[c] >= 1)
            /\ cafter[c] = cpost[c] - (IF cres[c] THEN 1 ELSE 0)
            /\ cpost[c] = 0 => ~cres[c]

\* One call has returned True and taken the last token, another has returned
\* False on an empty bucket.
C6_Witness ==
    \E c1, c2 \in Callers :
        /\ cpc[c1] = "ret" /\ cres[c1] /\ cafter[c1] = cpost[c1] - 1
        /\ cpc[c2] = "ret" /\ ~cres[c2] /\ cpost[c2] = 0

\* C7: refill-then-decrement is atomic per limiter: at most one caller is
\* between the refill and the decrement at a time, and among the calls that
\* read the same clock value (no time passes between them) no more return
\* True than there were tokens to obtain beforehand (the stored count plus
\* the refill that is due), so no token is granted twice and the count never
\* goes negative.
C7_AcquireAtomic ==
    /\ \A c1, c2 \in Callers :
          (cpc[c1] \in {"refill", "check", "take"} /\
           cpc[c2] \in {"refill", "check", "take"}) => c1 = c2
    /\ epochGrants <= epochAvail
    /\ tokens >= 0

\* Two callers are in acquire() at once: one is about to take the last token
\* that can be had before the next tick, the other is held at the lock.
C7_Witness ==
    \E c1, c2 \in Callers :
        /\ c1 # c2
        /\ cpc[c1] = "take" /\ lock = c1
        /\ cpc[c2] = "lock"
        /\ epochGrants = epochAvail

(***************************************************************************)
(* Claims about process_task and the main loop                             *)
(***************************************************************************)

\* The handler of line 283 was entered with task.retry_count at the ceiling.
FailedAtCeiling(t) ==
    /\ ex[t].err # "none"
    /\ ex[t].ending \notin {"retried", "enqueue_failed"}
    /\ ex[t].retry_count >= max_retries

\* C1: once a task has failed with retry_count equal to max_retries, when
\* process_task has ended the dead-letter queue holds exactly one entry for
\* the task and the task is not on the primary queue, whatever failed.
C1_DeadLetteredExactlyOnce ==
    \A t \in Tasks :
        (ex[t].pc = "ended" /\ FailedAtCeiling(t)) =>
            (DlqEntries(t) = 1 /\ ~InQueue(t))

\* C2: when get_pr_diff is the only call that ever fails for a fresh task, the
\* task is attempted at most max_retries + 1 times; a failure among the first
\* max_retries puts the task back on the queue with retry_count raised by
\* one (the number of the failed attempt), status "failed" and no dead-letter
\* entry; the failure of attempt max_retries + 1 leaves status "failed" and
\* exactly one dead-letter entry, which holds the task, and the task off the
\* queue; and no such execution ends in any other way.
C2_DiffFetchAlwaysFails ==
    \A t \in Tasks :
        ~hist[t].otherFault =>
            /\ hist[t].attempts <= max_retries + 1
            /\ hist[t].attempts <= max_retries => DlqEntries(t) = 0
            /\ (ex[t].pc = "ended" /\ ex[t].ending = "retried") =>
                  /\ hist[t].attempts <= max_retries
                  /\ \E i \in 1..Len(queue) :
                        queue[i] = Task(t, hist[t].attempts)
                  /\ review[t].status = "failed"
                  /\ DlqEntries(t) = 0
            /\ (ex[t].pc = "ended" /\ ex[t].fault
                                   /\ ex[t].ending # "retried") =>
                  /\ ex[t].ending = "dead_lettered"
                  /\ hist[t].attempts = max_retries + 1
                  /\ review[t].status = "failed"
                  /\ DlqEntries(t) = 1
                  /\ \E i \in 1..Len(dlq) :
                        dlq[i].task = Task(t, max_retries)
                  /\ ~InQueue(t)

\* get_pr_diff has failed max_retries + 1 times, nothing else has, and the
\* task is dead-lettered.
C2_Witness ==
    \E t \in Tasks :
        /\ ~hist[t].otherFault
        /\ hist[t].attempts = max_retries + 1
        /\ ex[t].pc = "ended" /\ ex[t].ending = "dead_lettered"

\* C3: for every execution in which a call of a collaborator failed, when
\* process_task has ended the task's row records the failure and the task is
\* on the queue or in the dead-letter queue.
C3_NoSilentDrop ==
    \A t \in Tasks :
        (ex[t].pc = "ended" /\ ex[t].fault) =>
            /\ review[t].status = "failed"
            /\ InQueue(t) \/ InDlq(t)

\* C4: when process_task has ended, exactly one of these holds: the task is
\* completed (its row says so and the comment is posted), it is scheduled for
\* a retry (on the queue with this execution's retry_count), or it is
\* dead-lettered.
C4_ExactlyOneEnding ==
    \A t \in Tasks :
        ex[t].pc = "ended" =>
            LET completed == review[t].status = "completed"
                                /\ review[t].comment_posted
                retry == \E i \in 1..Len(queue) :
                            queue[i] = Task(t, ex[t].retry_count)
                dead == InDlq(t)
            IN  \/ completed /\ ~retry /\ ~dead
                \/ ~completed /\ retry /\ ~dead
                \/ ~completed /\ ~retry /\ dead

\* C8: whatever the executions in flight do, even if none of them ever takes
\* another step, the loop dequeues and dispatches every queued task.
C8_LoopNotBlocked == \A t \in Tasks : InQueue(t) ~> ~InQueue(t)

\* One execution is suspended in its back-off sleep and the loop has just
\* dispatched another task.
C8_Witness ==
    \E t1, t2 \in Tasks :
        /\ ex[t1].pc = "retry_sleep"
        /\ ex[t2].pc = "create_pr_review"

\* C9: within one execution no Guardian, Architect or Stylist call has
\* started before Scout has returned, and the Synthesizer has not been called
\* before all three have produced a result.
C9_StageOrder ==
    \A t \in Tasks :
        /\ \A a \in Agents :
              ex[t][a] # "none" => ex[t].scout \in {"ok", "err"}
        /\ ex[t].synthesizer # "none" =>
              \A a \in Agents : ex[t][a] \in {"ok", "err"}

\* The three analyses are running side by side after a failed Scout: one has
\* returned, two have not.
C9_Witness ==
    \E t \in Tasks :
        /\ ex[t].scout = "err"
        /\ ex[t].guardian = "running"
        /\ ex[t].architect = "ok"
        /\ ex[t].stylist = "running"

\* C10: an execution in which no call of a collaborator failed, whatever the
\* five stages returned, ends with the task completed: an outcome row is
\* saved, a comment is posted, the status is "completed", and the task is
\* neither on the queue nor in the dead-letter queue.
C10_StageErrorsNeverFailTheTask ==
    \A t \in Tasks :
        (ex[t].pc = "ended" /\ ~ex[t].fault) =>
            /\ ex[t].ending = "completed"
            /\ review[t].status = "completed" /\ review[t].comment_posted
            /\ resultRows[t] >= 1 /\ comments[t] >= 1
            /\ hist[t].attempts = 1 => (resultRows[t] = 1 /\ comments[t] = 1)
            /\ ~InQueue(t) /\ ~InDlq(t)

\* All five stages returned a result with error set and the task is
\* completed.
C10_Witness ==
    \E t \in Tasks :
        /\ ex[t].pc = "ended" /\ ex[t].ending = "completed" /\ ~ex[t].fault
        /\ ex[t].scout = "err" /\ ex[t].synthesizer = "err"
        /\ \A a \in Agents : ex[t][a] = "err"

\* C11: within one execution the comment is posted only when that execution's
\* Synthesizer result (real or fallback) exists: every step that posts a
\* comment is taken from a state in which the Synthesizer has returned in
\* this execution, so an execution that fails before that posts nothing.
C11_DeliveryAfterSynthesis ==
    [][\A t \in Tasks :
          comments'[t] # comments[t] =>
              /\ ex[t].synthesizer \in {"ok", "err"}
              /\ ex'[t].synthesizer = ex[t].synthesizer]_vars

\* The comment of an execution whose Synthesizer fell back has just been
\* posted, in a second attempt whose first failed before the synthesis.
C11_Witness ==
    \E t \in Tasks :
        /\ ex[t].pc = "mark_completed"
        /\ ex[t].synthesizer = "err"
        /\ hist[t].attempts = 2
        /\ comments[t] = 1

\* C12: when every collaborator call and every stage succeeds on the first
\* attempt, process_task ends with exactly one outcome row, exactly one
\* posted comment (recorded in the task's row with its id), status
\* "completed", the task off the queue and no dead-letter entry.
C12_HappyPath ==
    \A t \in Tasks :
        (/\ ex[t].pc = "ended" /\ hist[t].attempts = 1 /\ ~ex[t].fault
         /\ ex[t].scout = "ok" /\ ex[t].synthesizer = "ok"
         /\ \A a \in Agents : ex[t][a] = "ok") =>
            /\ resultRows[t] = 1
            /\ comments[t] = 1
            /\ review[t] = [status |-> "completed", error_message |-> "null",
                            comment_posted |-> TRUE, comment_id |-> 1]
            /\ ~InQueue(t)
            /\ DlqEntries(t) = 0

\* The first attempt has ended with all five stages and every call
\* successful.
C12_Witness ==
    \E t \in Tasks :
        /\ ex[t].pc = "ended" /\ ex[t].ending = "completed"
        /\ hist[t].attempts = 1 /\ faults = MaxFaults
        /\ ex[t].scout = "ok" /\ ex[t].synthesizer = "ok"
        /\ \A a \in Agents : ex[t][a] = "ok"

\* C14: for each task, over all of its attempts, at most one comment is
\* posted: a failure after the post does not lead to a second one.
C14_AtMostOneDelivery == \A t \in Tasks : comments[t] <= 1

(***************************************************************************)
(* Claims about the assembled review (checked under SpecReview)            *)
(***************************************************************************)

\* C13: the total_tokens of every saved outcome row equals the sum of the
\* tokens_used of the five results of the attempt (Scout, Guardian,
\* Architect, Stylist, Synthesizer), whether each is real or degraded.
C13_TotalIsSumOfFive ==
    \A i \in 1..Len(review_results) :
        review_results[i].total_tokens =
            agent_results["scout"].tokens_used
                + agent_results["guardian"].tokens_used
                + agent_results["architect"].tokens_used
                + agent_results["stylist"].tokens_used
                + synthesizer_result.tokens_used

\* A row is saved for an attempt in which Guardian and the Synthesizer are
\* degraded and every result carries tokens.
C13_Witness ==
    /\ Len(review_results) = 1
    /\ agent_results["guardian"].error = "error"
    /\ synthesizer_result.error = "error"
    /\ \A a \in Stages : agent_results[a].tokens_used >= 1
    /\ synthesizer_result.tokens_used >= 1
    /\ review_results[1].total_tokens >= 5

\* C15: when the Synthesizer's own call fails, the text it produces holds,
\* under its heading, the output of each of Guardian, Architect and Stylist
\* whose result has no error, and holds neither the heading nor the output
\* of those whose result has an error; and it is not empty when at least
\* one of the three succeeded.
C15_FallbackHoldsTheSucceeded ==
    (synthesizer_result # NoResult /\ synthesizer_result.error # "null") =>
        LET text == synthesizer_result.output IN
            /\ \A a \in Agents :
                  IF agent_results[a].error = "null"
                  THEN \E i \in 1..(Len(text) - 1) :
                          /\ text[i] = Header(a)
                          /\ text[i + 1] = agent_results[a].output
                  ELSE \A i \in 1..Len(text) :
                          /\ text[i] # Header(a)
                          /\ text[i] # agent_results[a].output
            /\ (\E a \in Agents : agent_results[a].error = "null") =>
                  \E i \in 1..Len(text) : text[i] # ""

\* The Synthesizer fell back with Guardian in error and Architect and
\* Stylist successful.
C15_Witness ==
    /\ synthesizer_result.error = "error"
    /\ agent_results["guardian"].error = "error"
    /\ agent_results["architect"].error = "null"
    /\ agent_results["stylist"].error = "null"
    /\ Len(synthesizer_result.output) = 7

(***************************************************************************)
(* Claims about the queue and the retry policy                             *)
(***************************************************************************)

\* C16: the work queue is FIFO.  Its elements lie in the order of their
\* pushes, the latest push at the tail (leftmost), so a task re-enqueued for
\* a retry is behind every task that was in the queue at that moment; and
\* every dequeue takes the element pushed earliest and removes it.
C16_QueueIsFifo ==
    /\ [](/\ Len(order.tickets) = Len(queue)
          /\ \A i, j \in 1..Len(queue) :
                i < j => order.tickets[i] > order.tickets[j])
    /\ [][\A t \in Tasks :
            (ex[t].pc \in {"none", "ended"}
                /\ ex'[t].pc = "create_pr_review") =>
                /\ \E i \in 1..Len(queue) :
                      /\ queue[i].id = t
                      /\ \A j \in 1..Len(queue) :
                            order.tickets[j] >= order.tickets[i]
                /\ Len(queue') = Len(queue) - 1
                /\ \A k \in 1..Len(queue') : queue'[k] = queue[k]]_vars

\* A task re-enqueued for its retry is in the queue behind a task that has
\* been waiting since the start.
C16_Witness ==
    /\ Len(queue) = 2
    /\ queue[1].retry_count = 1 /\ order.tickets[1] = 3
    /\ queue[2].retry_count = 0 /\ order.tickets[2] = 2

\* task.retry_count of task t: the PRTask is on the queue (as pushed) or in
\* the hands of the execution that dequeued it.
RetryCountIn(q, e, t) ==
    IF \E i \in 1..Len(q) : q[i].id = t
    THEN q[CHOOSE i \in 1..Len(q) : q[i].id = t].retry_count
    ELSE e[t].retry_count

\* C17: in every reachable state 0 <= retry_count <= max_retries for every
\* task, on the queue, in an execution or in a dead-letter entry; no step
\* lowers a task's retry_count, and the only step that changes it is the
\* handler's increment by one on the retry branch, ahead of the back-off
\* sleep and the re-enqueue.
C17_RetryCountMonotoneAndBounded ==
    /\ [](/\ \A t \in Tasks :
                0 <= ex[t].retry_count /\ ex[t].retry_count <= max_retries
          /\ \A i \in 1..Len(queue) :
                0 <= queue[i].retry_count
                    /\ queue[i].retry_count <= max_retries
          /\ \A i \in 1..Len(dlq) :
                0 <= dlq[i].task.retry_count
                    /\ dlq[i].task.retry_count <= max_retries)
    /\ [][\A t \in Tasks :
            LET before == RetryCountIn(queue, ex, t)
                after == RetryCountIn(queue', ex', t)
            IN  /\ after >= before
                /\ after # before =>
                      /\ after = before + 1
                      /\ ex[t].pc = "mark_failed"
                      /\ ex'[t].pc = "retry_sleep"]_vars

\* The handler has just raised retry_count to the ceiling and the task is
\* about to be re-enqueued.
C17_Witness ==
    \E t \in Tasks :
        /\ ex[t].pc = "retry_sleep"
        /\ ex[t].retry_count = max_retries
        /\ hist[t].attempts = max_retries

\* C18: with the worker loop running and every queue operation succeeding,
\* every enqueued task eventually has a final outcome, status "completed" or
\* a dead-letter entry, and is attempted at most max_retries + 1 times.
C18_BoundedRetryTerminates ==
    /\ [](\A t \in Tasks : hist[t].attempts <= max_retries + 1)
    /\ \A t \in Tasks :
          InQueue(t) ~>
              \/ review[t].status = "completed"
              \/ InDlq(t)
              \/ ex[t].ending \in {"enqueue_failed", "dlq_failed"}

(***************************************************************************)
(* Claims about the DiffParser (checked under SpecParser)                  *)
(***************************************************************************)

\* The header (file header or hunk header) that line i of d comes under.
HeaderOf(d, i) ==
    CHOOSE h \in 1..(i - 1) :
        /\ d[h].kind \in {"diff", "hunk"}
        /\ \A j \in (h + 1)..(i - 1) : d[j].kind \notin {"diff", "hunk"}

\* The lines of the hunk whose header is line h of d.
HunkBody(d, h) ==
    {i \in (h + 1)..Len(d) :
        \A j \in (h + 1)..i : d[j].kind \notin {"diff", "hunk"}}

\* A valid unified diff: it starts with a file header; index, binary,
\* deleted, "---" and "+++" lines stand between a file header and the
\* file's first hunk; added, removed and context lines stand in a hunk; and
\* the counts of every hunk header (1 when left out) are the numbers of old
\* lines (context and removed) and new lines (context and added) of the hunk.
ValidDiff(d) ==
    /\ d # <<>>
    /\ d[1].kind = "diff"
    /\ \A i \in 2..Len(d) :
          \/ d[i].kind \in {"diff", "hunk"}
          \/ /\ d[i].kind \in {"add", "remove", "context"}
             /\ d[HeaderOf(d, i)].kind = "hunk"
          \/ /\ d[i].kind \in {"index", "binary", "new", "deleted", "add3",
                            "remove3"}
             /\ d[HeaderOf(d, i)].kind = "diff"
    /\ \A h \in 1..Len(d) :
          d[h].kind = "hunk" =>
              /\ HunkCount(d[h].removed) =
                    Cardinality({i \in HunkBody(d, h) :
                                    d[i].kind \in {"context", "remove"}})
              /\ HunkCount(d[h].added) =
                    Cardinality({i \in HunkBody(d, h) :
                                    d[i].kind \in {"context", "add"}})

\* C19: for every valid unified diff, each file parse_diff returns has
\* added_lines equal to the number of lines of its content that start with
\* "+" but not "+++", and removed_lines equal to the number of lines that
\* start with "-" but not "---".
C19_CountsMatchContent ==
    (parser_pc \in {"filter", "refilter", "done"} /\ ValidDiff(diff_text)) =>
        \A k \in 1..Len(files) :
            /\ files[k].added_lines =
                  Cardinality({i \in 1..Len(files[k].content) :
                                  files[k].content[i].kind = "add"})
            /\ files[k].removed_lines =
                  Cardinality({i \in 1..Len(files[k].content) :
                                  files[k].content[i].kind = "remove"})

\* C20: filter_noise returns exactly the entries of its argument whose
\* effective path (new_path, else old_path) matches no noise pattern, in
\* their original order; and filter_noise of that result is that result.
C20_FilterKeepsTheRestInOrder ==
    LET Kept(fs) ==
            {i \in 1..Len(fs) :
                ~IsNoiseFile(IF fs[i].new_path # "" THEN fs[i].new_path
                             ELSE fs[i].old_path)}
        Nth(fs, k) ==
            CHOOSE i \in Kept(fs) :
                Cardinality({j \in Kept(fs) : j <= i}) = k
    IN  /\ parser_pc \in {"refilter", "done"} =>
            /\ Len(filtered_files) = Cardinality(Kept(files))
            /\ \A k \in 1..Len(filtered_files) :
                  filtered_files[k] = files[Nth(files, k)]
        /\ parser_pc = "done" => refiltered_files = filtered_files

\* A caller's list of two entries: a lock file renamed to a source path is
\* kept, an entry without new_path whose old path is a lock file is dropped;
\* and the second call has returned.
C20_Witness ==
    /\ parser_pc = "done"
    /\ files = <<FileEntry("yarn.lock", "src/app.py"),
                FileEntry("yarn.lock", "")>>
    /\ filtered_files = <<FileEntry("yarn.lock", "src/app.py")>>

(***************************************************************************)
(* Claims about chunk_large_file (checked under SpecChunk)                 *)
(***************************************************************************)

\* C21: for every content and every max_size >= 1, every chunk that
\* chunk_large_file returns has at most max_size characters, also when a
\* line of the content is longer than max_size.
C21_ChunksWithinMaxSize ==
    (chunk_pc = "done" /\ max_size >= 1) =>
        \A k \in 1..Len(chunks) : Len(chunks[k]) <= max_size

\* The lines of the chunks, one chunk after the other.
RECURSIVE LinesOf(_)
LinesOf(cs) ==
    IF cs = <<>> THEN <<>> ELSE Split(Head(cs)) \o LinesOf(Tail(cs))

\* C22: joining the chunks chunk_large_file returns with "\n" gives the
\* content back, and every line of the content lies whole in one chunk: the
\* lines of the chunks, in order, are the lines of the content.
C22_ChunksRoundTrip ==
    chunk_pc = "done" =>
        /\ Join(chunks) = file_content
        /\ LinesOf(chunks) = Split(file_content)

\* A text of three lines, the second one empty, came back in two chunks:
\* the first line, and the empty line with the last one.
C22_Witness ==
    /\ chunk_pc = "done"
    /\ file_content = <<"a", "a", "\n", "\n", "a">>
    /\ max_size = 3
    /\ chunks = <<<<"a", "a">>, <<"\n", "a">>>>

(***************************************************************************)
(* Claims about the handler of process_task and its rate limiting          *)
(***************************************************************************)

\* C23: on a task-level failure the status store is updated to "failed" with
\* the error text before the task is re-enqueued or dead-lettered, the task
\* is re-enqueued only after the back-off delay, and whenever the retried
\* task is dequeued again the status stored for it is "failed".
C23_FailedBeforeRequeue ==
    [][\A t \in Tasks :
          /\ (~ex[t].marked /\ ex'[t].marked) =>
                /\ review'[pr_id[t]].status = "failed"
                /\ review'[pr_id[t]].error_message = ex[t].err
          /\ (DlqEntries(t)' > DlqEntries(t)) => ex[t].marked
          /\ (~InQueue(t) /\ InQueue(t)') =>
                /\ ex[t].marked
                /\ ex[t].delay >= RetryDelay
                /\ ex[t].slept >= ex[t].delay
          /\ (InQueue(t) /\ ~InQueue(t)' /\ ex'[t].retry_count > 0) =>
                review[pr_id[t]].status = "failed"]_vars

\* C24: the delay before the k-th re-enqueue of a task is base_delay * k,
\* where k is the task's retry_count after the increment, for every k from 1
\* to the ceiling: when the sleep of the k-th attempt's handler is over, k is
\* the incremented retry_count and the time slept is retry_delay * k.
C24_BackoffIsLinear ==
    \A t \in Tasks :
        At(t, "enqueue") =>
            /\ ex[t].retry_count \in 1..max_retries
            /\ ex[t].retry_count = hist[t].attempts
            /\ ex[t].slept = RetryDelay * ex[t].retry_count

\* The task is about to be re-enqueued for the last time the ceiling allows.
C24_Witness ==
    /\ At(1, "enqueue")
    /\ ex[1].retry_count = max_retries
    /\ ex[1].slept = RetryDelay * max_retries

\* C25: every call process_task makes to the source-control collaborator
\* (get_pr_diff, get_pr_details, post_pr_comment) comes right after a wait()
\* of the same attempt on the GitHub rate limiter.
C25_GithubLimiterBeforeSourceControl ==
    \A t \in Tasks :
        ex[t].pc \in {"get_pr_diff", "get_pr_details", "post_pr_comment"} =>
            ex[t].waited = "github"

\* C26: the three analyses are rate-limited independently: an analysis whose
\* own wait() has returned (its limiter had a token) has started its call,
\* whatever the limiters of the other analyses do.
C26_AnalysisStartsOnItsOwnLimiter ==
    \A t \in Tasks : \A a \in Agents :
        a \in ex[t].got => ex[t][a] # "none"

\* C28: with capacity >= 1, time advancing and a finite set of calls on one
\* limiter scheduled fairly, every wait() returns, and only with a token; a
\* waiter sleeping between its attempts does not hold the lock, and every
\* acquire() of another caller runs to its end.
C28_WaitEventuallyReturns ==
    /\ \A c \in Callers :
          (cmode[c] = "wait" /\ cpc[c] # "idle") ~> (cpc[c] = "idle")
    /\ [][\A c \in Callers :
             (cmode[c] = "wait" /\ cpc[c] # "idle" /\ cpc'[c] = "idle") =>
                 cres[c]]_vars
    /\ [](\A c \in Callers : cpc[c] = "sleep" => lock # c)
    /\ \A c \in Callers :
          (cmode[c] = "acquire" /\ cpc[c] # "idle") ~> (cpc[c] = "idle")

\* A waiter is asleep after a failed attempt while another caller, whose
\* acquire() ran in the meantime, has the token.
C28_Witness ==
    \E c, d \in Callers :
        /\ c # d
        /\ cmode[c] = "wait" /\ cpc[c] = "sleep"
        /\ cpc[d] = "ret" /\ cres[d]

(***************************************************************************)
(* Claims about the RateLimiter instances (SpecLimiters, SpecRefill)       *)
(***************************************************************************)

\* C27: the limiters of different providers are independent state: the
\* tokens and the last-refill time of an instance change only in a call of
\* acquire() (direct, or an iteration of wait()) on that same instance.
C27_LimitersIndependent ==
    [][\A l \in Limiters :
          instances'[l] # instances[l] => last_call' = l]_vars

\* The OpenAI limiter has been drawn on and refilled at a later time while
\* the GitHub and Anthropic limiters are as constructed.
C27_Witness ==
    /\ last_call = "openai"
    /\ instances["openai"].last_refill > 0
    /\ instances["openai"].tokens < LimiterRate
    /\ instances["github"] = NewLimiter(LimiterRate, instances["github"].per, 0)
    /\ instances["anthropic"] = instances["github"]

\* The refill of acquire(), as the claim states it: floor(elapsed * capacity
\* / period) tokens are added, the count is clamped to capacity, last_refill
\* moves to the current time only when a whole token was added; then one
\* token is taken when there is one.
RefillAsStated ==
    [][\A l \in DOMAIN instances :
          instances'[l] # instances[l] =>
              LET b == instances[l]
                  add == ((now - b.last_refill) * b.rate) \div b.per
                  filled == IF add > 0 THEN Min(b.rate, b.tokens + add)
                            ELSE b.tokens
              IN  /\ instances'[l].tokens =
                        IF filled > 0 THEN filled - 1 ELSE filled
                  /\ instances'[l].last_refill =
                        IF add > 0 THEN now ELSE b.last_refill
                  /\ instances'[l].rate = b.rate
                  /\ instances'[l].per = b.per]_vars

\* capacity + floor(T * capacity / period) for the interval so far.
WindowBound ==
    LET b == instances[window.of]
    IN  b.rate + ((now - window.start) * b.rate) \div b.per

\* C29 as stated: the refill is as above, and in any interval of length T
\* that begins with a full bucket at most capacity + floor(T * capacity /
\* period) acquisitions succeed.
C29_RefillAndRateBound ==
    /\ RefillAsStated
    /\ [](window.open => window.granted <= WindowBound)

\* C29, amended: the refill is as above; in an interval of length T that
\* begins with a full bucket whose last_refill is the current time (at
\* construction, or right after a refill) at most capacity + floor(T *
\* capacity / period) acquisitions succeed, and in any interval that begins
\* with a full bucket at most one more.
C29_RefillAndRateBoundAmended ==
    /\ RefillAsStated
    /\ [](window.open /\ window.fresh => window.granted <= WindowBound)
    /\ [](window.open => window.granted <= WindowBound + 1)

\* An interval that began with a full bucket some time after the last
\* refill, in which one acquisition more than capacity + floor(T * capacity
\* / period) has succeeded.
C29_Witness ==
    /\ window.open
    /\ ~window.fresh
    /\ window.granted = WindowBound + 1

(***************************************************************************)
(* Claims about the Scout (checked under SpecScout)                        *)
(***************************************************************************)

\* C30: when the Scout fails its result has an error and its output is its
\* input unchanged; Guardian, Architect and Stylist are all given the same
\* text: the Scout's output when the Scout succeeded, the parser-filtered
\* diff when it degraded.
C30_ScoutFallsThrough ==
    /\ (scout_pc # "scout" /\ scout_failed) =>
          /\ scout_result.error \notin {"null", ""}
          /\ scout_result.output = filtered_diff
    /\ scout_pc = "done" =>
          \A a \in Agents :
              stage_input[a] = IF scout_failed THEN filtered_diff
                               ELSE scout_result.output

\* The Scout failed on a non-empty diff and the three analyses have been
\* given that diff.
C30_Witness ==
    /\ scout_pc = "done"
    /\ scout_failed
    /\ filtered_diff = "diff 1"
    /\ stage_input = [a \in Agents |-> "diff 1"]

(***************************************************************************)
(* Claims about the dead-letter store, the outcome and the ownership of a  *)
(* task                                                                    *)
(***************************************************************************)

\* C31: the dead-letter store is written only on exhausted retries: every
\* entry holds a task whose retry_count is the configured ceiling, the error
\* text of the failed attempt and a timestamp, and an execution pushes an
\* entry only when its task's retry_count is the ceiling.
C31_DeadLetterOnlyAtCeiling ==
    /\ [](\A i \in 1..Len(dlq) :
             /\ DOMAIN dlq[i] = {"task", "error", "failed_at"}
             /\ dlq[i].task.retry_count = max_retries
             /\ Truthy(dlq[i].error)
             /\ dlq[i].failed_at = "utcnow")
    /\ [][\A t \in Tasks :
             DlqEntries(t)' > DlqEntries(t) =>
                 /\ ex[t].retry_count = max_retries
                 /\ dlq'[1] = DlqEntry(Task(t, max_retries), ex[t].err)]_vars

\* The task has been dead-lettered after its last retry failed at the diff
\* fetch.
C31_Witness ==
    /\ Len(dlq) = 1
    /\ dlq[1].task = Task(1, max_retries)
    /\ dlq[1].error = "github error"
    /\ hist[1].attempts = max_retries + 1

\* C32: for each task, across all of its attempts, the aggregate outcome is
\* persisted at most once: save_review_result inserts at most one row of
\* review_results for the task, also when an attempt fails after the insert
\* and the task is retried.
C32_OutcomePersistedAtMostOnce ==
    \A t \in Tasks : resultRows[t] <= 1

\* C33: task ownership is exclusive: in every reachable state a task is in
\* at most one of the primary queue, an in-flight execution of process_task
\* and the dead-letter store; a dequeue takes the task off the queue and
\* hands it to exactly one execution, and an execution starts only so.
C33_ExclusiveOwnership ==
    /\ [](\A t \in Tasks :
             Cardinality({i \in 1..Len(queue) : queue[i].id = t})
                 + (IF t \in InFlight THEN 1 ELSE 0)
                 + DlqEntries(t) <= 1)
    /\ [][\A t \in Tasks :
             /\ (InQueue(t) /\ ~InQueue(t)') =>
                   /\ RPeek(queue).id = t
                   /\ queue' = SubSeq(queue, 1, Len(queue) - 1)
                   /\ t \notin InFlight
                   /\ ex'[t].pc = "create_pr_review"
                   /\ hist'[t].attempts = hist[t].attempts + 1
                   /\ \A u \in Tasks \ {t} : ex'[u] = ex[u]
             /\ (t \notin InFlight /\ t \in InFlight') =>
                   (InQueue(t) /\ ~InQueue(t)')]_vars

\* One task is back on the queue for its retry while the other is held by an
\* execution that has failed.
C33_Witness ==
    /\ InQueue(1)
    /\ queue[1] = Task(1, 1)
    /\ ex[1].ending = "retried"
    /\ At(2, "mark_failed")

(***************************************************************************)
(* Claims about Queue (SpecQueue) and handle_webhook (SpecWebhook)         *)
(***************************************************************************)

C35_DequeueNoneRemovesNothing ==
    (qcall.op = "dequeue" /\ qcall.result = "None") => store = qcall.before

\* C40: a request whose signature is missing or invalid is answered with
\* status 401 and enqueues no task; a task is enqueued only for a correctly
\* signed "pull_request" event whose action is "opened" or "synchronize";
\* every newly enqueued task has retry_count 0.
C40_WebhookRejectsAndEnqueues ==
    response # 0 =>
        LET signed == request.signature =
                          [prefix |-> "sha256=",
                           mac |-> <<"webhook secret", request.body>>]
        IN  /\ ~signed => (response = 401 /\ store = qcall.before)
            /\ store # qcall.before =>
                  /\ signed
                  /\ request.event = "pull_request"
                  /\ request.action \in {"opened", "synchronize"}
                  /\ Len(store) = Len(qcall.before) + 1
                  /\ store[1].retry_count = 0

(***************************************************************************)
(* Claims about the status lifecycle and the shutdown of the worker        *)
(***************************************************************************)

\* C36: in one attempt of a task that is alone for its key the status store
\* observes pending, then "processing", then exactly one of "completed" and
\* "failed": the status changes only along these steps, and when the attempt
\* has ended it is "completed" or "failed"; "processing" is recorded before
\* the diff fetch starts; "completed" is recorded only after the delivery
\* has returned, with comment_posted = true and the comment id that
\* delivery returned.
C36_StatusLifecycle ==
    /\ [](\A t \in Tasks :
             At(t, "ended") => review[pr_id[t]].status \in {"completed",
                                                            "failed"})
    /\ [][\A t \in Tasks :
             review'[pr_id[t]].status # review[pr_id[t]].status =>
                 \/ /\ At(t, "create_pr_review")
                    /\ review[pr_id[t]].status \in {"none", "failed"}
                    /\ review'[pr_id[t]].status = "pending"
                 \/ /\ At(t, "mark_processing")
                    /\ review[pr_id[t]].status = "pending"
                    /\ review'[pr_id[t]].status = "processing"
                 \/ /\ ex[t].pc \in {"mark_completed", "mark_failed"}
                    /\ review[pr_id[t]].status = "processing"
                    /\ review'[pr_id[t]].status =
                          IF At(t, "mark_completed") THEN "completed"
                          ELSE "failed"]_vars
    /\ [](\A t \in Tasks :
             ex[t].pc \in {"github_wait_diff", "get_pr_diff"} =>
                 review[pr_id[t]].status = "processing")
    /\ [][\A t \in Tasks :
             (review'[pr_id[t]].status = "completed"
                  /\ review[pr_id[t]].status # "completed") =>
                 /\ At(t, "mark_completed")
                 /\ comments[t] >= 1
                 /\ review'[pr_id[t]].comment_posted
                 /\ review'[pr_id[t]].comment_id = comments[t]]_vars

\* C37: the worker loop ends after shutdown: once stop() has set running to
\* false, start() leaves its loop, and it does so at the end of the dequeue
\* in progress (at most one more task is taken off the queue, none once the
\* loop is left); while running is true the loop is not left, whatever
\* dequeue returns.
C37_LoopEndsAfterStop ==
    /\ (~running) ~> (loopPc = "exited")
    /\ [][(~running /\ Len(queue') < Len(queue)) => loopPc' = "exited"]_vars
    /\ [][loopPc = "exited" =>
             (loopPc' = "exited" /\ Len(queue') >= Len(queue))]_vars
    /\ [][(loopPc = "dequeue" /\ loopPc' = "exited") => ~running]_vars

\* stop() was called while one task was being processed and the other was
\* still queued: the loop has been left and the task is still on the queue.
C37_Witness ==
    /\ ~running
    /\ loopPc = "exited"
    /\ 1 \in InFlight
    /\ InQueue(2)

(***************************************************************************)
(* Claims about parse_diff and get_file_summary (checked under SpecParser) *)
(***************************************************************************)

\* C38: parse_diff returns exactly one record per per-file segment of its
\* input, in input order, for every input, malformed ones included: the
\* k-th record holds the lines of the k-th segment (from the k-th line that
\* starts with "diff --git" up to the next one) and no others, so that no
\* record is returned twice and none takes in the lines of the segment
\* that follows it.
C38_OneRecordPerSegment ==
    (parser_pc \in {"filter", "refilter", "done"} /\ diff_text # <<>>) =>
        LET heads == {i \in 1..Len(diff_text) :
                         diff_text[i].kind \in {"diff", "diff_bad"}}
            HeadAt(k) == CHOOSE i \in heads :
                           Cardinality({j \in heads : j <= i}) = k
            EndAt(k) == IF k = Cardinality(heads) THEN Len(diff_text)
                      ELSE HeadAt(k + 1) - 1
        IN  /\ Len(files) = Cardinality(heads)
            /\ \A k \in 1..Len(files) :
                  files[k].content = SubSeq(diff_text, HeadAt(k), EndAt(k))

\* C39: get_file_summary reports one status per parsed file: "new" when the
\* file's segment has a "new file mode" line, "deleted" when it has a
\* "deleted file mode" line, "binary" when it has a "Binary files" line
\* (checked for the segments that have at most one of the three), and
\* "modified" otherwise.
C39_StatusClassification ==
    (parser_pc = "done" /\ summary # <<>>) =>
        /\ Len(summary) = Len(files)
        /\ \A k \in 1..Len(files) :
              LET marks == {files[k].content[i].kind :
                               i \in 1..Len(files[k].content)}
                              \cap {"new", "deleted", "binary"}
              IN  /\ marks = {} => summary[k].status = "modified"
                  /\ \A m \in marks :
                        marks = {m} => summary[k].status = m

====
